---- MODULE Spec2Model ----
(***************************************************************************)
(* Record / replay engine of libs/hwui/DisplayListRenderer.cpp.            *)
(*                                                                         *)
(* A DisplayListRenderer (the recorder) writes opcodes and operands as     *)
(* 32-bit words into mWriter; getDisplayList copies the stream into a      *)
(* DisplayList, whose replay() walks the copy through the list's own       *)
(* cursor mReader and calls the executor (an OpenGLRenderer).              *)
(*                                                                         *)
(* Words are integers.  Floats are modelled by the integer they hold, and  *)
(* pointers by small object ids.  Cursor offsets are in bytes, 4 a word.   *)
(* Rectangles are <<left, top, right, bottom>>.                            *)
(***************************************************************************)
EXTENDS Integers, Sequences, FiniteSets, TLC

VARIABLES
    rec,        \* the DisplayListRenderer: writer, pending state, snapshots
    session,    \* history: the calls made on the recorder since reset(),
                \* whether finish() was the last of them, whether
                \* prepareDirty() opened the session, and whether nothing
                \* was pending when it did
    lists,      \* the DisplayList objects, by id
    cache,      \* Caches::resourceCache: reference count per shared resource
    threads,    \* per replaying thread: call stack of replay(), executor, log
    nops        \* number of recorder calls made (bounded by MaxOps)

vars == <<rec, session, lists, cache, threads, nops>>

(***************************************************************************)
(* Bounds of the model.                                                    *)
(***************************************************************************)
MaxOps == 3

(***************************************************************************)
(* Opcodes: DisplayList::Op, in the order of OP_NAMES.                     *)
(***************************************************************************)
Save == 0
Restore == 1
RestoreToCount == 2
Translate == 5
ClipRect == 11
DrawDisplayList == 12
DrawBitmap == 14
DrawRect == 20
DrawPath == 25

\* the tag is the top byte of the opcode word: 0xff000000, which as a
\* two's complement int is -(2^24)
TagUnit == 2 ^ 24
OP_MAY_BE_SKIPPED_MASK == 0 - TagUnit
kReplayFlag_ClipChildren == 1

\* op & OP_MAY_BE_SKIPPED_MASK, on a two's complement word
MayBeSkipped(op) == (op \div TagUnit) # 0
\* op & ~OP_MAY_BE_SKIPPED_MASK
StripSkipTag(op) == op % TagUnit

(***************************************************************************)
(* The objects the callers draw with.                                      *)
(***************************************************************************)
\* setViewport(8, 8): prepareDirty clips to (0, 0, mWidth, mHeight)
Viewport == <<0, 0, 8, 8>>

\* SkCanvas::kMatrix_SaveFlag | SkCanvas::kClip_SaveFlag
SaveFlags == 3
\* SkRegion::kIntersect_Op
kIntersect_Op == 1

\* SkPaint objects: paint 1 has kFill_Style, paint 2 has kStroke_Style
Paints == {1, 2}
IsFillStyle(paint) == paint = 1

\* SkPath objects: id -> the bounds computePathBounds returns for them
\* (offset is 0.  Path 1 covers (4,4)-(6,6), path 2 covers (1,1)-(13,13))
Paths == {1}
PathBounds(path) ==
    IF path = 1 THEN [left |-> 4, top |-> 4, width |-> 2, height |-> 2]
                ELSE [left |-> 1, top |-> 1, width |-> 12, height |-> 12]

\* SkBitmap objects, all 2 x 2
Bitmaps == {1}
BitmapWidth(bitmap) == 2
BitmapHeight(bitmap) == 2

\* DisplayList objects; NullList is the NULL pointer
ListIds == {1, 2}
NullList == 0
Threads == {1, 2}

ClipInputs == {<<2, 2, 6, 6>>}
RectInputs == {<<0, 0, 2, 2>>}
TranslateInputs == {<<4, 2>>, <<-4, -2>>}
CountInputs == {1, 3}
BitmapPosInputs == {<<0, 0>>}
ChildSizeInputs == {<<2, 2>>}

(***************************************************************************)
(* Rect (libs/hwui/Rect.h, as used by Snapshot and quickReject)            *)
(***************************************************************************)
Max(a, b) == IF a >= b THEN a ELSE b
Min(a, b) == IF a <= b THEN a ELSE b

RectIsEmpty(r) == r[1] >= r[3] \/ r[2] >= r[4]
RectIntersectWith(a, b) ==
    <<Max(a[1], b[1]), Max(a[2], b[2]), Min(a[3], b[3]), Min(a[4], b[4])>>
RectIntersects(a, b) == ~RectIsEmpty(RectIntersectWith(a, b))
RectTranslate(r, tx, ty) == <<r[1] + tx, r[2] + ty, r[3] + tx, r[4] + ty>>
EmptyRect == <<0, 0, 0, 0>>

(***************************************************************************)
(* OpenGLRenderer state: the stack of snapshots (transform and clip).      *)
(* The recorder inherits it to evaluate quickReject; the executor of a     *)
(* replay is another instance of it.                                       *)
(***************************************************************************)
FirstSnapshot == [tx |-> 0, ty |-> 0, clip |-> Viewport]
Top(s) == s[Len(s)]
Pop(s) == SubSeq(s, 1, Len(s) - 1)
SetTop(s, x) == [s EXCEPT ![Len(s)] = x]

\* OpenGLRenderer::save: push a copy of the current snapshot
Renderer_save(snaps) == Append(snaps, Top(snaps))
\* OpenGLRenderer::restore: pop unless at the first snapshot
Renderer_restore(snaps) == IF Len(snaps) > 1 THEN Pop(snaps) ELSE snaps
\* OpenGLRenderer::restoreToCount: pop while mSaveCount > max(saveCount, 1)
Renderer_restoreToCount(snaps, saveCount) ==
    LET target == Max(saveCount, 1)
    IN IF Len(snaps) > target THEN SubSeq(snaps, 1, target) ELSE snaps
\* OpenGLRenderer::translate
Renderer_translate(snaps, dx, dy) ==
    SetTop(snaps, [Top(snaps) EXCEPT !.tx = @ + dx, !.ty = @ + dy])
\* OpenGLRenderer::clipRect with kIntersect_Op: the rect is mapped by the
\* transform and intersected; an empty intersection empties the clip
Renderer_clipRect(snaps, r) ==
    LET s == Top(snaps)
        m == RectTranslate(r, s.tx, s.ty)
        i == RectIntersectWith(s.clip, m)
    IN SetTop(snaps, [s EXCEPT !.clip = IF RectIsEmpty(i) THEN EmptyRect ELSE i])
\* OpenGLRenderer::quickReject: the mapped rect does not intersect the clip
quickReject(snaps, left, top, right, bottom) ==
    LET s == Top(snaps)
    IN ~RectIntersects(s.clip, RectTranslate(<<left, top, right, bottom>>, s.tx, s.ty))

(***************************************************************************)
(* DisplayListRenderer: the recorder.  Each operator takes the recorder    *)
(* record r and gives the record after the call.                           *)
(*   w        mWriter, the words written so far                            *)
(*   tx, ty, hasT   mTranslateX, mTranslateY, mHasTranslate                *)
(*   rsc      mRestoreSaveCount (-1: no restore pending)                   *)
(*   hasDraw  mHasDrawOps                                                  *)
(*   snaps    the inherited OpenGLRenderer snapshot stack (mSaveCount is   *)
(*            its length)                                                  *)
(*   bitmaps  mBitmapResources                                             *)
(***************************************************************************)
addInt(r, v) == [r EXCEPT !.w = Append(@, v)]
addPoint(r, x, y) == [r EXCEPT !.w = @ \o <<x, y>>]
addBounds(r, left, top, right, bottom) ==
    [r EXCEPT !.w = @ \o <<left, top, right, bottom>>]
addSize(r, width, height) == [r EXCEPT !.w = @ \o <<width, height>>]
\* the paint is written by the pointer of its per-session snapshot
addPaint(r, paint) == addInt(r, paint)
addPath(r, path) == addInt(r, path)
addDisplayList(r, displayList) == addInt(r, displayList)
\* a bitmap is written by pointer; each occurrence is appended to
\* mBitmapResources (the reference it takes is counted in the action)
addBitmap(r, bitmap) ==
    [r EXCEPT !.w = Append(@, bitmap), !.bitmaps = Append(@, bitmap)]

insertRestoreToCount(r) ==
    IF r.rsc >= 0
    THEN [r EXCEPT !.w = @ \o <<RestoreToCount, r.rsc>>, !.rsc = -1]
    ELSE r

insertTranlate(r) ==
    IF r.hasT
    THEN IF r.tx # 0 \/ r.ty # 0
         THEN [r EXCEPT !.w = @ \o <<Translate, r.tx, r.ty>>,
                        !.tx = 0, !.ty = 0, !.hasT = FALSE]
         ELSE [r EXCEPT !.hasT = FALSE]
    ELSE r

addOp(r, drawOp) ==
    LET r1 == insertTranlate(insertRestoreToCount(r))
    IN [r1 EXCEPT !.w = Append(@, drawOp),
                  !.hasDraw = @ \/ drawOp >= DrawDisplayList]

\* addOp(drawOp, reject): a rejected operation is written tagged, followed
\* by the slot of its skip length; the slot is the last word written
addOpReject(r, drawOp, reject) ==
    LET r1 == insertTranlate(insertRestoreToCount(r))
        r2 == [r1 EXCEPT !.hasDraw = @ \/ drawOp >= DrawDisplayList]
    IN IF reject
       THEN [r2 EXCEPT !.w = @ \o <<OP_MAY_BE_SKIPPED_MASK + drawOp, 0>>]
       ELSE [r2 EXCEPT !.w = Append(@, drawOp)]

\* the location addOp returns: the index of the slot, 0 for NULL
SkipLocation(r, reject) == IF reject THEN Len(r.w) ELSE 0

\* addSkip: the slot receives the number of words written after it
addSkip(r, location) ==
    IF location # 0 THEN [r EXCEPT !.w[location] = Len(r.w) - location] ELSE r

Recorder_save(r, flags) ==
    LET r1 == addInt(addOp(r, Save), flags)
    IN [r1 EXCEPT !.snaps = Renderer_save(@)]

\* a restoreToCount that leaves the pending translation pending
Recorder_restoreToCount_noFlush(r, saveCount) ==
    [r EXCEPT !.rsc = saveCount, !.snaps = Renderer_restoreToCount(@, saveCount)]

Recorder_restoreToCount(r, saveCount) ==
    LET r1 == insertTranlate([r EXCEPT !.rsc = saveCount])
    IN [r1 EXCEPT !.snaps = Renderer_restoreToCount(@, saveCount)]

Recorder_restore(r) ==
    IF r.rsc < 0
    THEN Recorder_restoreToCount(r, Len(r.snaps) - 1)
    ELSE LET r1 == insertTranlate([r EXCEPT !.rsc = @ - 1])
         IN [r1 EXCEPT !.snaps = Renderer_restore(@)]

\* a translate that replaces the pending translation instead of adding to it
Recorder_translate_overwrite(r, dx, dy) ==
    LET r1 == insertRestoreToCount([r EXCEPT !.hasT = TRUE, !.tx = dx, !.ty = dy])
    IN [r1 EXCEPT !.snaps = Renderer_translate(@, dx, dy)]

\* a translate that leaves the pending restore pending
Recorder_translate_noFlush(r, dx, dy) ==
    [r EXCEPT !.hasT = TRUE, !.tx = @ + dx, !.ty = @ + dy,
              !.snaps = Renderer_translate(@, dx, dy)]

Recorder_translate(r, dx, dy) ==
    LET r1 == insertRestoreToCount(
                  [r EXCEPT !.hasT = TRUE, !.tx = @ + dx, !.ty = @ + dy])
    IN [r1 EXCEPT !.snaps = Renderer_translate(@, dx, dy)]

\* a clipRect that is written tagged, with a skip slot, like a rejected draw
Recorder_clipRect_tagged(r, rc, op) ==
    LET r1 == addOpReject(r, ClipRect, TRUE)
        location == SkipLocation(r1, TRUE)
        r2 == addSkip(addInt(addBounds(r1, rc[1], rc[2], rc[3], rc[4]), op), location)
    IN [r2 EXCEPT !.snaps = Renderer_clipRect(@, rc)]

Recorder_clipRect(r, rc, op) ==
    LET r1 == addInt(addBounds(addOp(r, ClipRect), rc[1], rc[2], rc[3], rc[4]), op)
    IN [r1 EXCEPT !.snaps = Renderer_clipRect(@, rc)]

\* a drawRect that does not look at the paint's style
Recorder_drawRect_anyStyle(r, rc, paint) ==
    LET reject == quickReject(r.snaps, rc[1], rc[2], rc[3], rc[4])
        r1 == addOpReject(r, DrawRect, reject)
        location == SkipLocation(r1, reject)
    IN addSkip(addPaint(addBounds(r1, rc[1], rc[2], rc[3], rc[4]), paint), location)

Recorder_drawRect(r, rc, paint) ==
    LET reject == IsFillStyle(paint) /\ quickReject(r.snaps, rc[1], rc[2], rc[3], rc[4])
        r1 == addOpReject(r, DrawRect, reject)
        location == SkipLocation(r1, reject)
    IN addSkip(addPaint(addBounds(r1, rc[1], rc[2], rc[3], rc[4]), paint), location)

\* drawPath hands quickReject the width and height where it takes right
\* and bottom
Recorder_drawPath(r, path, paint) ==
    LET b == PathBounds(path)
        reject == quickReject(r.snaps, b.left, b.top, b.width, b.height)
        r1 == addOpReject(r, DrawPath, reject)
        location == SkipLocation(r1, reject)
    IN addSkip(addPaint(addPath(r1, path), paint), location)

Recorder_drawBitmap(r, bitmap, left, top, paint) ==
    LET reject == quickReject(r.snaps, left, top,
                              left + BitmapWidth(bitmap), top + BitmapHeight(bitmap))
        r1 == addOpReject(r, DrawBitmap, reject)
        location == SkipLocation(r1, reject)
    IN addSkip(addPaint(addPoint(addBitmap(r1, bitmap), left, top), paint), location)

Recorder_drawDisplayList(r, displayList, width, height, flags) ==
    LET reject == quickReject(r.snaps, 0, 0, width, height)
        r1 == addOpReject(r, DrawDisplayList, reject)
        location == SkipLocation(r1, reject)
    IN addSkip(addInt(addSize(addDisplayList(r1, displayList), width, height), flags),
               location)

Recorder_finish(r) == insertTranlate(insertRestoreToCount(r))

\* reset(): the writer and the resource vectors are emptied; the pending
\* translation and the snapshots are left as they are
Recorder_reset(r) == [r EXCEPT !.w = <<>>, !.bitmaps = <<>>, !.hasDraw = FALSE]

\* prepareDirty(): a fresh snapshot clipped to the viewport
Recorder_prepareDirty(r) == [r EXCEPT !.snaps = <<FirstSnapshot>>, !.rsc = -1]

\* the recorder after construction, setViewport() and prepareDirty()
NewRecorder ==
    [w |-> <<>>, tx |-> 0, ty |-> 0, hasT |-> FALSE, rsc |-> -1, hasDraw |-> FALSE,
     snaps |-> <<FirstSnapshot>>, bitmaps |-> <<>>]

(***************************************************************************)
(* Caches::resourceCache: the count of references per shared resource.     *)
(***************************************************************************)
RECURSIVE incrementRefcounts(_, _)
incrementRefcounts(c, resources) ==
    IF resources = <<>> THEN c
    ELSE incrementRefcounts([c EXCEPT ![Head(resources)] = @ + 1], Tail(resources))

RECURSIVE decrementRefcounts(_, _)
decrementRefcounts(c, resources) ==
    IF resources = <<>> THEN c
    ELSE decrementRefcounts([c EXCEPT ![Head(resources)] = @ - 1], Tail(resources))

(***************************************************************************)
(* DisplayList.  Fields of a list record:                                  *)
(*   alive      the object has been constructed                            *)
(*   buf        the words mReader points at (kept after sk_free, so that   *)
(*              a read of freed memory can be told apart)                  *)
(*   hasMem     mReader.base() is not NULL                                 *)
(*   freed      the memory at mReader.base() has been given to sk_free     *)
(*   cur        mReader's offset from its base, in bytes                   *)
(*   mSize, renderable, bitmaps   mSize, mIsRenderable, mBitmapResources   *)
(*   kids       history: the lists the buffer's DrawDisplayList ops name   *)
(*   src        history: the session last finalized into the list          *)
(*   initializing   a thread is inside initFromDisplayListRenderer on the   *)
(*              list, between clearResources and the allocation            *)
(***************************************************************************)
NoList ==
    [alive |-> FALSE, buf |-> <<>>, hasMem |-> FALSE, freed |-> FALSE, cur |-> 0,
     mSize |-> 0, renderable |-> FALSE, bitmaps |-> <<>>, kids |-> {},
     src |-> <<>>, initializing |-> FALSE]

DisplayList_init(L) == [L EXCEPT !.mSize = 0, !.renderable = TRUE]

\* a clearResources that forgets to give the references back
clearResources_noRelease(L, c) ==
    [l |-> [L EXCEPT !.freed = L.hasMem, !.bitmaps = <<>>], c |-> c]

\* a clearResources that gives every reference back twice
clearResources_twice(L, c) ==
    [l |-> [L EXCEPT !.freed = L.hasMem, !.bitmaps = <<>>],
     c |-> decrementRefcounts(decrementRefcounts(c, L.bitmaps), L.bitmaps)]

\* clearResources(): frees the buffer and drops the references; mReader is
\* left pointing at the freed buffer.  Gives the list and the cache.
clearResources(L, c) ==
    [l |-> [L EXCEPT !.freed = L.hasMem, !.bitmaps = <<>>],
     c |-> decrementRefcounts(c, L.bitmaps)]

\* the part of initFromDisplayListRenderer up to and including the call
\* of clearResources; "go" tells whether the function goes on
initBegin(L, c, r, reusing) ==
    LET L1 == DisplayList_init(L)
    IN IF Len(r.w) = 0 THEN [l |-> L1, c |-> c, go |-> FALSE]
       ELSE IF reusing THEN [l |-> clearResources(L1, c).l,
                             c |-> clearResources(L1, c).c, go |-> TRUE]
       ELSE [l |-> L1, c |-> c, go |-> TRUE]

\* an initialisation that retains each resource once, however often it occurs
initEnd_oncePerResource(L, c, r, kids) ==
    [l |-> [L EXCEPT !.mSize = 4 * Len(r.w), !.buf = r.w, !.hasMem = TRUE,
                     !.freed = FALSE, !.cur = 0, !.kids = kids,
                     !.bitmaps = @ \o r.bitmaps],
     c |-> [b \in DOMAIN c |->
               IF \E i \in 1..Len(r.bitmaps) : r.bitmaps[i] = b THEN c[b] + 1 ELSE c[b]]]

\* the rest: the stream is copied into a new buffer, mReader is set on it,
\* and the recorder's resources are added and retained
initEnd(L, c, r, kids) ==
    [l |-> [L EXCEPT !.mSize = 4 * Len(r.w), !.buf = r.w, !.hasMem = TRUE,
                     !.freed = FALSE, !.cur = 0, !.kids = kids,
                     !.bitmaps = @ \o r.bitmaps],
     c |-> incrementRefcounts(c, r.bitmaps)]

initFromDisplayListRenderer(L, c, r, reusing, kids) ==
    LET b == initBegin(L, c, r, reusing)
    IN IF b.go THEN initEnd(b.l, b.c, r, kids) ELSE [l |-> b.l, c |-> b.c]

getSize(L) == L.mSize

\* SkReader32::eof(): fCurr >= fStop
ReaderEof(L) == ~L.hasMem \/ L.cur >= 4 * Len(L.buf)

\* SkReader32::readInt at byte offset off.  A read outside the buffer, or
\* of a buffer that was freed, is undefined: it gives the word g
WordAt(L, off, g) ==
    IF ~L.freed /\ off >= 0 /\ off % 4 = 0 /\ off \div 4 < Len(L.buf)
    THEN L.buf[off \div 4 + 1]
    ELSE g

Garbage == {0, DrawRect}

(***************************************************************************)
(* DisplayList::replay: one iteration of the loop of lines 598-990.        *)
(***************************************************************************)
\* the number of words each case of the switch reads
NumOperands(op) ==
    CASE op = Save -> 1
      [] op = Restore -> 0
      [] op = RestoreToCount -> 1
      [] op = Translate -> 2
      [] op = ClipRect -> 5
      [] op = DrawDisplayList -> 4
      [] op = DrawBitmap -> 4
      [] op = DrawRect -> 5
      [] op = DrawPath -> 2
      [] OTHER -> 0

NoCall == [m |-> "none", a |-> <<>>]

\* the executor call each case makes from the operands a it read
Dispatch(op, a, saveCount, level) ==
    CASE op = Save -> [m |-> "save", a |-> <<a[1]>>]
      [] op = Restore -> [m |-> "restore", a |-> <<>>]
      [] op = RestoreToCount -> [m |-> "restoreToCount", a |-> <<saveCount + a[1]>>]
      [] op = Translate -> [m |-> "translate", a |-> <<a[1], a[2]>>]
      [] op = ClipRect -> [m |-> "clipRect", a |-> <<a[1], a[2], a[3], a[4], a[5]>>]
      [] op = DrawDisplayList ->
             [m |-> "drawDisplayList", a |-> <<a[1], a[2], a[3], a[4], level + 1>>]
      [] op = DrawBitmap -> [m |-> "drawBitmap", a |-> <<a[1], a[2], a[3], a[4]>>]
      [] op = DrawRect -> [m |-> "drawRect", a |-> <<a[1], a[2], a[3], a[4], a[5]>>]
      [] op = DrawPath -> [m |-> "drawPath", a |-> <<a[1], a[2]>>]
      [] OTHER -> NoCall

\* flags & kReplayFlag_ClipChildren
ClipChildren(flags) == (flags \div kReplayFlag_ClipChildren) % 2 = 1

\* an iteration that reads the skip length but does not skip the operands
ReplayIteration_noSkip(L, flags, saveCount, level, g) ==
    LET op0 == WordAt(L, L.cur, g)
        tagged == MayBeSkipped(op0)
        c2 == IF tagged THEN L.cur + 8 ELSE L.cur + 4
        op == IF tagged THEN StripSkipTag(op0) ELSE op0
        n == NumOperands(op)
        a == [i \in 1..n |-> WordAt(L, c2 + 4 * (i - 1), g)]
    IN IF tagged /\ ClipChildren(flags)
       THEN [cur |-> c2, call |-> NoCall, jumped |-> TRUE, op |-> op0]
       ELSE [cur |-> c2 + 4 * n, call |-> Dispatch(op, a, saveCount, level),
             jumped |-> FALSE, op |-> op0]

\* an iteration that takes the skip length for a number of bytes
ReplayIteration_skipBytes(L, flags, saveCount, level, g) ==
    LET op0 == WordAt(L, L.cur, g)
        tagged == MayBeSkipped(op0)
        skip == IF tagged THEN WordAt(L, L.cur + 4, g) ELSE 0
        c2 == IF tagged THEN L.cur + 8 ELSE L.cur + 4
        op == IF tagged THEN StripSkipTag(op0) ELSE op0
        n == NumOperands(op)
        a == [i \in 1..n |-> WordAt(L, c2 + 4 * (i - 1), g)]
    IN IF tagged /\ ClipChildren(flags)
       THEN [cur |-> c2 + skip, call |-> NoCall, jumped |-> TRUE, op |-> op0]
       ELSE [cur |-> c2 + 4 * n, call |-> Dispatch(op, a, saveCount, level),
             jumped |-> FALSE, op |-> op0]

\* an iteration that jumps over every tagged operation, whatever the flags
ReplayIteration_alwaysJump(L, flags, saveCount, level, g) ==
    LET op0 == WordAt(L, L.cur, g)
        tagged == MayBeSkipped(op0)
        skip == IF tagged THEN WordAt(L, L.cur + 4, g) * 4 ELSE 0
        c2 == IF tagged THEN L.cur + 8 ELSE L.cur + 4
        op == IF tagged THEN StripSkipTag(op0) ELSE op0
        n == NumOperands(op)
        a == [i \in 1..n |-> WordAt(L, c2 + 4 * (i - 1), g)]
    IN IF tagged
       THEN [cur |-> c2 + skip, call |-> NoCall, jumped |-> TRUE, op |-> op0]
       ELSE [cur |-> c2 + 4 * n, call |-> Dispatch(op, a, saveCount, level),
             jumped |-> FALSE, op |-> op0]

\* an iteration that leaves the cursor on a tagged operation it jumps over
ReplayIteration_noProgress(L, flags, saveCount, level, g) ==
    LET op0 == WordAt(L, L.cur, g)
        tagged == MayBeSkipped(op0)
        c2 == IF tagged THEN L.cur + 8 ELSE L.cur + 4
        op == IF tagged THEN StripSkipTag(op0) ELSE op0
        n == NumOperands(op)
        a == [i \in 1..n |-> WordAt(L, c2 + 4 * (i - 1), g)]
    IN IF tagged /\ ClipChildren(flags)
       THEN [cur |-> L.cur, call |-> NoCall, jumped |-> TRUE, op |-> op0]
       ELSE [cur |-> c2 + 4 * n, call |-> Dispatch(op, a, saveCount, level),
             jumped |-> FALSE, op |-> op0]

\* One iteration on list L, for a replay with these flags: the cursor after
\* it, the call made (NoCall when the operation is skipped or unknown), and
\* whether the operation was jumped over
ReplayIteration(L, flags, saveCount, level, g) ==
    LET op0 == WordAt(L, L.cur, g)
        tagged == MayBeSkipped(op0)
        skip == IF tagged THEN WordAt(L, L.cur + 4, g) * 4 ELSE 0
        c2 == IF tagged THEN L.cur + 8 ELSE L.cur + 4
        op == IF tagged THEN StripSkipTag(op0) ELSE op0
        n == NumOperands(op)
        a == [i \in 1..n |-> WordAt(L, c2 + 4 * (i - 1), g)]
    IN IF tagged /\ ClipChildren(flags)
       THEN [cur |-> c2 + skip, call |-> NoCall, jumped |-> TRUE, op |-> op0]
       ELSE [cur |-> c2 + 4 * n, call |-> Dispatch(op, a, saveCount, level),
             jumped |-> FALSE, op |-> op0]

(***************************************************************************)
(* The executor: what each call does to the OpenGLRenderer's snapshots.    *)
(***************************************************************************)
ExecApply(snaps, call) ==
    CASE call.m = "save" -> Renderer_save(snaps)
      [] call.m = "restore" -> Renderer_restore(snaps)
      [] call.m = "restoreToCount" -> Renderer_restoreToCount(snaps, call.a[1])
      [] call.m = "translate" -> Renderer_translate(snaps, call.a[1], call.a[2])
      [] call.m = "clipRect" ->
             Renderer_clipRect(snaps, <<call.a[1], call.a[2], call.a[3], call.a[4]>>)
      [] OTHER -> snaps

(***************************************************************************)
(* State                                                                   *)
(***************************************************************************)
IdleThread ==
    [status |-> "idle", stack |-> <<>>, snaps |-> <<FirstSnapshot>>, log |-> <<>>,
     top |-> [dl |-> NullList, flags |-> 0]]

NewSession == [calls |-> <<>>, finished |-> FALSE, prepared |-> TRUE, clean |-> TRUE]

\* List 1 exists already: an earlier session recorded
\*   drawRect(0, 0, 2, 2, paint 1); finish()
\* and getDisplayList(NULL) made list 1 of it; then reset(), prepareDirty()
ChildCalls == <<[m |-> "drawRect", a |-> <<0, 0, 2, 2, 1>>]>>
ChildRecorder == Recorder_finish(Recorder_drawRect(NewRecorder, <<0, 0, 2, 2>>, 1))
FinishedSession(calls) ==
    [calls |-> calls, finished |-> TRUE, prepared |-> TRUE, clean |-> TRUE]
\* the list getDisplayList(NULL) makes of recorder r, which recorded calls
PrebuiltList(r, calls) ==
    [initEnd(DisplayList_init(NoList), [b \in Bitmaps |-> 0], r, {}).l
        EXCEPT !.alive = TRUE, !.renderable = r.hasDraw, !.src = FinishedSession(calls)]
ChildList == PrebuiltList(ChildRecorder, ChildCalls)

Init ==
    /\ rec = NewRecorder
    /\ session = NewSession
    /\ lists = [d \in ListIds |-> IF d = 1 THEN ChildList ELSE NoList]
    /\ cache = [b \in Bitmaps |-> 0]
    /\ threads = [t \in Threads |-> IdleThread]
    /\ nops = 0

\* no replay is running: replay() is a synchronous call, so in a
\* single-threaded program nothing else happens until it returns
Quiet == \A t \in Threads : threads[t].status # "run"
\* the runs explored record and finalize first, and replay afterwards
NoReplayYet == \A t \in Threads : threads[t].status = "idle"

\* the lists a session's calls draw, and the lists reachable from a set
SessionKids(calls) ==
    {calls[i].a[1] : i \in {j \in 1..Len(calls) : calls[j].m = "drawDisplayList"}}
RECURSIVE ReachFrom(_, _)
ReachFrom(S, n) ==
    IF n = 0 THEN S
    ELSE ReachFrom(S \cup UNION {lists[d].kids : d \in S}, n - 1)
Reachable(S) == ReachFrom(S, Cardinality(ListIds))

(***************************************************************************)
(* Recorder calls                                                          *)
(***************************************************************************)
\* the recording protocol: prepareDirty() opens the session, and after
\* finish() nothing is recorded until the next session
Record(r, call) ==
    /\ nops < MaxOps
    /\ session.prepared
    /\ ~session.finished
    /\ rec' = r
    /\ session' = [session EXCEPT !.calls = Append(@, call), !.finished = FALSE]
    /\ nops' = nops + 1
    /\ UNCHANGED <<lists, threads>>

SaveCall ==
    /\ Record(Recorder_save(rec, SaveFlags), [m |-> "save", a |-> <<SaveFlags>>])
    /\ UNCHANGED cache

RestoreCall ==
    /\ Record(Recorder_restore(rec), [m |-> "restore", a |-> <<>>])
    /\ UNCHANGED cache

RestoreToCountCall ==
    \E k \in CountInputs :
        /\ Record(Recorder_restoreToCount(rec, k), [m |-> "restoreToCount", a |-> <<k>>])
        /\ UNCHANGED cache

TranslateCall ==
    \E d \in TranslateInputs :
        /\ Record(Recorder_translate(rec, d[1], d[2]), [m |-> "translate", a |-> d])
        /\ UNCHANGED cache

ClipRectCall ==
    \E rc \in ClipInputs :
        /\ Record(Recorder_clipRect(rec, rc, kIntersect_Op),
                  [m |-> "clipRect", a |-> rc \o <<kIntersect_Op>>])
        /\ UNCHANGED cache

DrawRectCall ==
    \E rc \in RectInputs, paint \in Paints :
        /\ Record(Recorder_drawRect(rec, rc, paint),
                  [m |-> "drawRect", a |-> rc \o <<paint>>])
        /\ UNCHANGED cache

DrawPathCall ==
    \E path \in Paths :
        /\ Record(Recorder_drawPath(rec, path, 1), [m |-> "drawPath", a |-> <<path, 1>>])
        /\ UNCHANGED cache

\* addBitmap also takes a reference on the bitmap
DrawBitmapCall ==
    \E bitmap \in Bitmaps, pos \in BitmapPosInputs :
        /\ Record(Recorder_drawBitmap(rec, bitmap, pos[1], pos[2], 1),
                  [m |-> "drawBitmap", a |-> <<bitmap, pos[1], pos[2], 1>>])
        /\ cache' = incrementRefcounts(cache, <<bitmap>>)

\* the nested list is an existing list
DrawDisplayListCall ==
    \E d \in ListIds, sz \in ChildSizeInputs :
        /\ lists[d].alive
        /\ Record(Recorder_drawDisplayList(rec, d, sz[1], sz[2], kReplayFlag_ClipChildren),
                  [m |-> "drawDisplayList",
                   a |-> <<d, sz[1], sz[2], kReplayFlag_ClipChildren, 1>>])
        /\ UNCHANGED cache

Finish ==
    /\ session.prepared
    /\ ~session.finished
    /\ rec' = Recorder_finish(rec)
    /\ session' = [session EXCEPT !.finished = TRUE]
    /\ UNCHANGED <<lists, cache, threads, nops>>

\* reset() gives back the references the recorder took
Reset ==
    /\ rec' = Recorder_reset(rec)
    /\ cache' = decrementRefcounts(cache, rec.bitmaps)
    /\ session' = [calls |-> <<>>, finished |-> FALSE, prepared |-> FALSE, clean |-> FALSE]
    /\ UNCHANGED <<lists, threads, nops>>

\* prepareDirty() opens a session: it is called once, after reset()
PrepareDirty ==
    /\ ~session.prepared
    /\ rec' = Recorder_prepareDirty(rec)
    /\ session' = [session EXCEPT !.prepared = TRUE, !.clean = ~rec.hasT]
    /\ UNCHANGED <<lists, cache, threads, nops>>

(***************************************************************************)
(* getDisplayList                                                          *)
(***************************************************************************)
\* what getDisplayList adds after the initialisation: setRenderable, and
\* the history fields
\* a getDisplayList that leaves the flag as init() set it
Finalized_flagOfInit(L, kept) ==
    [L EXCEPT !.alive = TRUE,
              !.src = session, !.kids = IF kept THEN @ ELSE SessionKids(session.calls)]

Finalized(L, kept) ==
    [L EXCEPT !.alive = TRUE, !.renderable = rec.hasDraw,
              !.src = session, !.kids = IF kept THEN @ ELSE SessionKids(session.calls)]

\* getDisplayList(NULL): new DisplayList(*this)
GetDisplayListNew ==
    /\ session.finished
    /\ \E d \in ListIds :
        /\ ~lists[d].alive
        /\ \A e \in ListIds : e < d => lists[e].alive
        /\ LET x == initFromDisplayListRenderer(NoList, cache, rec, FALSE,
                                                SessionKids(session.calls))
           IN /\ lists' = [lists EXCEPT ![d] = Finalized(x.l, rec.w = <<>>)]
              /\ cache' = x.c
    /\ UNCHANGED <<rec, session, threads, nops>>

\* getDisplayList(displayList): the list is initialised again in place.
\* Lists do not draw themselves, directly or through other lists.
GetDisplayListExisting ==
    /\ session.finished
    /\ \E d \in ListIds :
        /\ lists[d].alive
        /\ d \notin Reachable(SessionKids(session.calls))
        /\ LET x == initFromDisplayListRenderer(lists[d], cache, rec, TRUE,
                                                SessionKids(session.calls))
           IN /\ lists' = [lists EXCEPT ![d] = Finalized(x.l, rec.w = <<>>)]
              /\ cache' = x.c
    /\ UNCHANGED <<rec, session, threads, nops>>

\* getDisplayList(displayList) with a session that draws displayList,
\* directly or through a list it draws: nothing in getDisplayList or in
\* drawDisplayList looks at what the lists draw
GetDisplayListSelf ==
    /\ session.finished
    /\ \E d \in ListIds :
        /\ lists[d].alive
        /\ d \in Reachable(SessionKids(session.calls))
        /\ LET x == initFromDisplayListRenderer(lists[d], cache, rec, TRUE,
                                                SessionKids(session.calls))
           IN /\ lists' = [lists EXCEPT ![d] = Finalized(x.l, rec.w = <<>>)]
              /\ cache' = x.c
    /\ UNCHANGED <<rec, session, threads, nops>>

\* getDisplayList(displayList) as another thread sees it, in two steps:
\* first init(), the size test and clearResources() ...
InitFromRendererBegin ==
    /\ session.finished
    /\ rec.w # <<>>
    /\ \E d \in ListIds :
        /\ lists[d].alive
        /\ ~lists[d].initializing
        /\ d \notin Reachable(SessionKids(session.calls))
        /\ LET x == initBegin(lists[d], cache, rec, TRUE)
           IN /\ lists' = [lists EXCEPT ![d] = [x.l EXCEPT !.initializing = TRUE]]
              /\ cache' = x.c
    /\ UNCHANGED <<rec, session, threads, nops>>

\* ... then the allocation, the copy, mReader.setMemory and the resources
InitFromRendererEnd ==
    /\ \E d \in ListIds :
        /\ lists[d].initializing
        /\ LET x == initEnd(lists[d], cache, rec, SessionKids(session.calls))
           IN /\ lists' = [lists EXCEPT
                    ![d] = Finalized([x.l EXCEPT !.initializing = FALSE], FALSE)]
              /\ cache' = x.c
    /\ UNCHANGED <<rec, session, threads, nops>>

\* delete displayList: ~DisplayList() calls clearResources().  The list is
\* not being replayed, and nothing that is live or being recorded draws it.
DestroyList ==
    /\ Quiet
    /\ \E d \in ListIds :
        /\ lists[d].alive
        /\ ~lists[d].initializing
        /\ d \notin SessionKids(session.calls)
        /\ \A e \in ListIds : lists[e].alive => d \notin lists[e].kids
        /\ LET x == clearResources(lists[d], cache)
           IN /\ lists' = [lists EXCEPT ![d] = [x.l EXCEPT !.alive = FALSE]]
              /\ cache' = x.c
    /\ UNCHANGED <<rec, session, threads, nops>>

(***************************************************************************)
(* replay                                                                  *)
(***************************************************************************)
Frame(d, flags, saveCount, level) ==
    [dl |-> d, flags |-> flags, saveCount |-> saveCount, level |-> level]

\* a caller starts replay(renderer, dirty, flags, 0) on a fresh executor;
\* the first thing replay does is mReader.rewind()
StartReplay(t) ==
    /\ threads[t].status # "run"
    /\ \E d \in ListIds, flags \in {0, kReplayFlag_ClipChildren} :
        /\ lists[d].alive
        /\ threads' = [threads EXCEPT ![t] =
               [status |-> "run", stack |-> <<Frame(d, flags, 0, 0)>>,
                snaps |-> <<FirstSnapshot>>, log |-> <<>>,
                top |-> [dl |-> d, flags |-> flags]]]
        /\ lists' = [lists EXCEPT ![d].cur = 0]
    /\ UNCHANGED <<rec, session, cache, nops>>

\* the loop test finds the end of the buffer: replay returns to its caller
ReplayReturn(t) ==
    LET th == threads[t]
        f == Top(th.stack)
    IN /\ th.status = "run"
       /\ ReaderEof(lists[f.dl])
       /\ threads' = [threads EXCEPT ![t].stack = Pop(th.stack),
                                     ![t].status = IF Len(th.stack) = 1 THEN "done" ELSE "run"]
       /\ UNCHANGED <<rec, session, lists, cache, nops>>

\* one iteration of the loop.  A DrawDisplayList that is dispatched calls
\* the executor, which calls replay of the nested list: a frame is pushed
\* and the nested list's reader is rewound.
ReplayStep(t) ==
    LET th == threads[t]
        f == Top(th.stack)
        L == lists[f.dl]
    IN /\ th.status = "run"
       /\ ~ReaderEof(L)
       /\ \E g \in Garbage :
           LET it == ReplayIteration(L, f.flags, f.saveCount, f.level, g)
               nested == it.call.m = "drawDisplayList" /\ it.call.a[1] \in ListIds
               child == it.call.a[1]
               snaps2 == ExecApply(th.snaps, it.call)
               log2 == IF it.call = NoCall THEN th.log
                       ELSE Append(th.log, [m |-> it.call.m, a |-> it.call.a, lvl |-> f.level])
               lists2 == [lists EXCEPT ![f.dl].cur = it.cur]
           IN /\ threads' = [threads EXCEPT
                    ![t].snaps = snaps2,
                    ![t].log = log2,
                    ![t].stack = IF nested
                                 THEN Append(th.stack,
                                        Frame(child, it.call.a[4], Len(snaps2) - 1, f.level + 1))
                                 ELSE th.stack]
              /\ lists' = IF nested THEN [lists2 EXCEPT ![child].cur = 0] ELSE lists2
       /\ UNCHANGED <<rec, session, cache, nops>>

(***************************************************************************)
(* Spec: one recording session is recorded, finished and made a new list,  *)
(* which a single thread then replays, with or without culling.  Nothing   *)
(* is recorded while a replay runs: replay() is a synchronous call.        *)
(***************************************************************************)
Next ==
    \/ NoReplayYet /\ SaveCall
    \/ NoReplayYet /\ RestoreCall
    \/ NoReplayYet /\ RestoreToCountCall
    \/ NoReplayYet /\ TranslateCall
    \/ NoReplayYet /\ ClipRectCall
    \/ NoReplayYet /\ DrawRectCall
    \/ NoReplayYet /\ DrawPathCall
    \/ NoReplayYet /\ DrawBitmapCall
    \/ NoReplayYet /\ DrawDisplayListCall
    \/ NoReplayYet /\ Finish
    \/ NoReplayYet /\ GetDisplayListNew
    \/ Quiet /\ StartReplay(1)
    \/ ReplayReturn(1)
    \/ ReplayStep(1)

Spec == Init /\ [][Next]_vars

(***************************************************************************)
(* Definitions shared by the properties                                    *)
(***************************************************************************)
\* the calls a replay made itself (level 0), without those of nested lists
RECURSIVE OwnCalls(_)
OwnCalls(log) ==
    IF log = <<>> THEN <<>>
    ELSE IF Head(log).lvl = 0
         THEN <<[m |-> Head(log).m, a |-> Head(log).a]>> \o OwnCalls(Tail(log))
         ELSE OwnCalls(Tail(log))

\* a top-level replay of thread t has returned; it ran with culling
\* disabled / enabled on a list made of a finished session that began with
\* nothing pending
ReplayDone(t) ==
    /\ threads[t].status = "done"
    /\ lists[threads[t].top.dl].src.finished
    /\ lists[threads[t].top.dl].src.clean
DoneUnculled(t) == ReplayDone(t) /\ ~ClipChildren(threads[t].top.flags)
DoneCulled(t) == ReplayDone(t) /\ ClipChildren(threads[t].top.flags)
ReplayedCalls(t) == lists[threads[t].top.dl].src.calls

RestoreMethods == {"restore", "restoreToCount"}
StateMethods == {"save", "restore", "restoreToCount", "translate", "clipRect"}
DrawMethods == {"drawRect", "drawPath", "drawBitmap", "drawDisplayList"}

RestoreMark == [m |-> "restoreToCount", a |-> <<>>]
FlushTranslate(tx, ty, hasT) ==
    IF hasT /\ (tx # 0 \/ ty # 0) THEN <<[m |-> "translate", a |-> <<tx, ty>>]>> ELSE <<>>
RECURSIVE CoalesceCalls(_, _, _, _, _)
CoalesceCalls(calls, tx, ty, hasT, inRestores) ==
    IF calls = <<>> THEN FlushTranslate(tx, ty, hasT)
    ELSE LET c == Head(calls)
         IN IF c.m = "translate"
            THEN CoalesceCalls(Tail(calls), tx + c.a[1], ty + c.a[2], TRUE, FALSE)
            ELSE IF c.m \in RestoreMethods
            THEN FlushTranslate(tx, ty, hasT)
                 \o (IF inRestores THEN <<>> ELSE <<RestoreMark>>)
                 \o CoalesceCalls(Tail(calls), 0, 0, FALSE, TRUE)
            ELSE FlushTranslate(tx, ty, hasT) \o <<c>>
                 \o CoalesceCalls(Tail(calls), 0, 0, FALSE, FALSE)

\* got is expected, where a restore mark stands for at most one
\* restoreToCount call, whatever its operand
RECURSIVE MatchesCoalesced(_, _)
MatchesCoalesced(expected, got) ==
    IF expected = <<>> THEN got = <<>>
    ELSE IF Head(expected) = RestoreMark
    THEN \/ /\ got # <<>>
            /\ Head(got).m = "restoreToCount"
            /\ MatchesCoalesced(Tail(expected), Tail(got))
         \/ MatchesCoalesced(Tail(expected), got)
    ELSE /\ got # <<>>
         /\ Head(got) = Head(expected)
         /\ MatchesCoalesced(Tail(expected), Tail(got))

LastCall == session.calls[Len(session.calls)]
JustDrew == session.calls # <<>> /\ LastCall.m \in DrawMethods

CallOp(c) ==
    CASE c.m = "drawRect" -> DrawRect
      [] c.m = "drawPath" -> DrawPath
      [] c.m = "drawBitmap" -> DrawBitmap
      [] c.m = "drawDisplayList" -> DrawDisplayList

\* the rectangle a draw call covers, from the call's own operands
CallBound(c) ==
    CASE c.m = "drawRect" -> <<c.a[1], c.a[2], c.a[3], c.a[4]>>
      [] c.m = "drawPath" ->
             <<PathBounds(c.a[1]).left, PathBounds(c.a[1]).top,
               PathBounds(c.a[1]).left + PathBounds(c.a[1]).width,
               PathBounds(c.a[1]).top + PathBounds(c.a[1]).height>>
      [] c.m = "drawBitmap" ->
             <<c.a[2], c.a[3], c.a[2] + BitmapWidth(c.a[1]), c.a[3] + BitmapHeight(c.a[1])>>
      [] c.m = "drawDisplayList" -> <<0, 0, c.a[2], c.a[3]>>

\* the bound, mapped by the current translation, misses the current clip
OutsideClip(c) ==
    ~RectIntersects(Top(rec.snaps).clip,
                    RectTranslate(CallBound(c), Top(rec.snaps).tx, Top(rec.snaps).ty))

\* the last operation in the writer is c's, tagged skippable
EncodedTagged(c) ==
    LET n == NumOperands(CallOp(c))
    IN /\ Len(rec.w) >= n + 2
       /\ rec.w[Len(rec.w) - n - 1] = OP_MAY_BE_SKIPPED_MASK + CallOp(c)

\* C2 as stated: an operation is tagged skippable only if its bound was
\* entirely outside the clip when it was recorded (no false positives), so
\* an operation that intersects the clip is never skipped.
C2_NoFalsePositive == JustDrew /\ EncodedTagged(LastCall) => OutsideClip(LastCall)

(***************************************************************************)
(* C3                                                                      *)
(***************************************************************************)
\* C3 as stated, on the recording side: any operation whose bound is
\* entirely outside the clip is written so that a culling replay skips it.
C3_AnyOutsideSkipped == JustDrew /\ OutsideClip(LastCall) => EncodedTagged(LastCall)

\* the draw calls whose rejection test is their bound against the clip
TestedAgainstClip(c) ==
    \/ c.m = "drawRect" /\ IsFillStyle(c.a[5])
    \/ c.m = "drawBitmap"
    \/ c.m = "drawDisplayList"

C3_RecordPart ==
    JustDrew /\ TestedAgainstClip(LastCall) /\ OutsideClip(LastCall) => EncodedTagged(LastCall)

\* thread t is about to run an iteration / has run it in this step
AtOperation(t) ==
    /\ threads[t].status = "run"
    /\ ~ReaderEof(lists[Top(threads[t].stack).dl])
Stepped(t) ==
    \/ threads'[t] # threads[t]
    \/ lists'[Top(threads[t].stack).dl] # lists[Top(threads[t].stack).dl]

C3_ReplayPart ==
    \A t \in Threads :
        LET f == Top(threads[t].stack)
            L == lists[f.dl]
            op0 == WordAt(L, L.cur, 0)
        IN (AtOperation(t) /\ Stepped(t) /\ ClipChildren(f.flags) /\ MayBeSkipped(op0))
           => /\ threads'[t].log = threads[t].log
              /\ threads'[t].snaps = threads[t].snaps
              /\ threads'[t].stack = threads[t].stack
              /\ lists'[f.dl].cur = L.cur + 8 + 4 * NumOperands(StripSkipTag(op0))

\* C3 as amended: a fill-style drawRect, a drawBitmap or a drawDisplayList
\* whose bound is entirely outside the clip at record time is tagged
\* skippable; and for any tagged operation a replay with culling enabled
\* makes no executor call and moves the cursor to the offset just after
\* the operation's encoded region.
C3_TaggedSkipped == [](C3_RecordPart) /\ [][C3_ReplayPart]_vars

\* a culling replay went over translate(-4,-2); drawRect(0,0,2,2, fill)
\* and called translate only
C3_Witness ==
    \E t \in Threads :
        /\ DoneCulled(t)
        /\ ReplayedCalls(t) = <<[m |-> "translate", a |-> <<-4, -2>>],
                                [m |-> "drawRect", a |-> <<0, 0, 2, 2, 1>>]>>
        /\ OwnCalls(threads[t].log) = <<[m |-> "translate", a |-> <<-4, -2>>]>>

(***************************************************************************)
(* C4                                                                      *)
(***************************************************************************)
\* the opcode boundaries a replay with these flags visits in list L
RECURSIVE Walk(_, _, _)
Walk(L, cur, flags) ==
    LET Lc == [L EXCEPT !.cur = cur]
    IN IF ReaderEof(Lc) THEN <<>>
       ELSE <<cur>> \o Walk(L, ReplayIteration(Lc, flags, 0, 0, 0).cur, flags)

Range(seq) == {seq[i] : i \in 1..Len(seq)}
HasBuffer(d) == lists[d].alive /\ lists[d].hasMem /\ ~lists[d].freed
TaggedAt(L, b) == MayBeSkipped(WordAt(L, b, 0))
SkipField(L, b) == WordAt(L, b + 4, 0)
OperandBytes(L, b) == 4 * NumOperands(StripSkipTag(WordAt(L, b, 0)))

C5_Iteration ==
    \A t \in Threads :
        LET th == threads[t]
            f == Top(th.stack)
            L == lists[f.dl]
            op0 == WordAt(L, L.cur, 0)
            tagged == MayBeSkipped(op0)
            op == StripSkipTag(op0)
            n == NumOperands(op)
            first == IF tagged THEN L.cur + 8 ELSE L.cur + 4
            a == [i \in 1..n |-> WordAt(L, first + 4 * (i - 1), 0)]
            call == Dispatch(op, a, f.saveCount, f.level)
        IN (AtOperation(t) /\ Stepped(t)) =>
            IF tagged /\ ClipChildren(f.flags)
            THEN /\ threads'[t].log = th.log
                 /\ threads'[t].snaps = th.snaps
                 /\ threads'[t].stack = th.stack
                 /\ lists'[f.dl].cur > L.cur
            ELSE /\ threads'[t].log =
                        IF call = NoCall THEN th.log
                        ELSE Append(th.log, [m |-> call.m, a |-> call.a, lvl |-> f.level])
                 /\ threads'[t].snaps = ExecApply(th.snaps, call)
                 /\ lists'[f.dl].cur = first + 4 * n
                 /\ IF op = DrawDisplayList
                    THEN /\ Len(threads'[t].stack) = Len(th.stack) + 1
                         /\ Top(threads'[t].stack).dl = a[1]
                         /\ lists'[a[1]].cur = 0
                    ELSE threads'[t].stack = th.stack

\* a cursor goes back only to offset 0, when a replay of its list begins
C5_CursorForward ==
    \A d \in ListIds :
        lists'[d].cur < lists[d].cur =>
            /\ lists'[d].cur = 0
            /\ \E t \in Threads :
                   /\ threads'[t].stack # <<>>
                   /\ Top(threads'[t].stack).dl = d
                   /\ threads'[t].stack # threads[t].stack

\* C5: an operation's operands are jumped over exactly when it is tagged
\* skippable and culling is enabled; then no executor call is made and no
\* nested list is replayed.  A tagged operation replayed with culling
\* disabled is stripped of its tag, decoded and dispatched like the
\* untagged one.  The cursor never moves backward except to rewind.
C5_SkipIffTaggedAndCulling == [][C5_Iteration /\ C5_CursorForward]_vars

\* a tagged drawDisplayList was jumped over by a culling replay: the
\* nested list's drawRect was not called
C5_Witness ==
    \E t \in Threads :
        /\ DoneCulled(t)
        /\ ReplayedCalls(t) = <<[m |-> "translate", a |-> <<-4, -2>>],
                                [m |-> "drawDisplayList",
                                 a |-> <<1, 2, 2, kReplayFlag_ClipChildren, 1>>]>>
        /\ threads[t].log = <<[m |-> "translate", a |-> <<-4, -2>>, lvl |-> 0]>>

(***************************************************************************)
(* C6                                                                      *)
(***************************************************************************)
RECURSIVE DirectApply(_, _)
DirectApply(snaps, calls) ==
    IF calls = <<>> THEN snaps
    ELSE DirectApply(ExecApply(snaps, Head(calls)), Tail(calls))

ExecState(snaps) ==
    [depth |-> Len(snaps), tx |-> Top(snaps).tx, ty |-> Top(snaps).ty,
     clip |-> Top(snaps).clip]

OnlyStateCalls(calls) == \A i \in 1..Len(calls) : calls[i].m \in StateMethods

\* C6 as stated: for any sequence of save / restore / restoreToCount /
\* translate / clipRect calls, recording it and replaying it leaves the
\* executor with the save depth, translation and clip that the same calls
\* applied directly would leave.
C6_StateRoundTrip ==
    \A t \in Threads :
        (DoneUnculled(t) /\ OnlyStateCalls(ReplayedCalls(t))) =>
            ExecState(threads[t].snaps) =
                ExecState(DirectApply(<<FirstSnapshot>>, ReplayedCalls(t)))

(***************************************************************************)
(* SpecReuse: recording sessions follow one another on one recorder, each  *)
(* opened by reset() and prepareDirty(); a finished session is made a new  *)
(* list or initialised into an existing one.                               *)
(***************************************************************************)
NextReuse ==
    \/ DrawRectCall
    \/ DrawBitmapCall
    \/ Finish
    \/ Reset
    \/ PrepareDirty
    \/ GetDisplayListNew
    \/ GetDisplayListExisting

SpecReuse == Init /\ [][NextReuse]_vars

(***************************************************************************)
(* SpecConc: list 1 holds  save(); translate(4,2); drawRect(0,0,2,2,fill); *)
(* restore().  Two threads replay it, each on its own executor, while the  *)
(* recorder's thread, which has finished a session of one stroke drawRect, *)
(* may hand list 1 to getDisplayList.                                      *)
(***************************************************************************)
ConcCalls ==
    <<[m |-> "save", a |-> <<SaveFlags>>], [m |-> "translate", a |-> <<4, 2>>],
      [m |-> "drawRect", a |-> <<0, 0, 2, 2, 1>>], [m |-> "restore", a |-> <<>>]>>
ConcRecorder ==
    Recorder_finish(Recorder_restore(Recorder_drawRect(
        Recorder_translate(Recorder_save(NewRecorder, SaveFlags), 4, 2), <<0, 0, 2, 2>>, 1)))
NextCalls == <<[m |-> "drawRect", a |-> <<0, 0, 2, 2, 2>>]>>
NextRecorder == Recorder_finish(Recorder_drawRect(NewRecorder, <<0, 0, 2, 2>>, 2))

InitConc ==
    /\ rec = NextRecorder
    /\ session = FinishedSession(NextCalls)
    /\ lists = [d \in ListIds |-> IF d = 1 THEN PrebuiltList(ConcRecorder, ConcCalls)
                                  ELSE NoList]
    /\ cache = [b \in Bitmaps |-> 0]
    /\ threads = [t \in Threads |-> IdleThread]
    /\ nops = 0

\* each thread replays once, and the session is made into list 1 once
NextConc ==
    \/ threads[1].status = "idle" /\ StartReplay(1)
    \/ ReplayStep(1)
    \/ ReplayReturn(1)
    \/ threads[2].status = "idle" /\ StartReplay(2)
    \/ ReplayStep(2)
    \/ ReplayReturn(2)
    \/ lists[1].src # session /\ InitFromRendererBegin
    \/ InitFromRendererEnd

SpecConc == InitConc /\ [][NextConc]_vars

(***************************************************************************)
(* C7                                                                      *)
(***************************************************************************)
\* the calls one replay of L makes when nothing else touches the list
RECURSIVE SoloLog(_, _, _)
SoloLog(L, cur, flags) ==
    LET Lc == [L EXCEPT !.cur = cur]
        it == ReplayIteration(Lc, flags, 0, 0, 0)
    IN IF ReaderEof(Lc) THEN <<>>
       ELSE (IF it.call = NoCall THEN <<>>
             ELSE <<[m |-> it.call.m, a |-> it.call.a, lvl |-> 0]>>)
            \o SoloLog(L, it.cur, flags)

\* list d is still as it was made: getDisplayList has not touched it
Unmodified(d) ==
    /\ lists[d].src = FinishedSession(ConcCalls)
    /\ ~lists[d].freed
    /\ ~lists[d].initializing

\* C7 as stated: replays of one list that overlap in time, each on its own
\* executor, each make the call sequence a single replay makes.
C7_OverlappingReplays ==
    \A t \in Threads :
        (threads[t].status = "done" /\ Unmodified(threads[t].top.dl)) =>
            threads[t].log = SoloLog(lists[threads[t].top.dl], 0, threads[t].top.flags)

(***************************************************************************)
(* C8                                                                      *)
(***************************************************************************)
\* C8 as stated: while a replay of a list is in flight, the buffer the
\* list had when the replay began has not been freed.
C8_BufferOutlivesReplay ==
    \A t \in Threads :
        threads[t].status = "run" =>
            \A i \in 1..Len(threads[t].stack) : ~lists[threads[t].stack[i].dl].freed

(***************************************************************************)
(* C9                                                                      *)
(***************************************************************************)
\* the bitmaps a session's calls draw, one per drawBitmap call
RECURSIVE SessionBitmaps(_)
SessionBitmaps(calls) ==
    IF calls = <<>> THEN <<>>
    ELSE (IF Head(calls).m = "drawBitmap" THEN <<Head(calls).a[1]>> ELSE <<>>)
         \o SessionBitmaps(Tail(calls))

\* C9 as stated: a list holds references for exactly the resources of the
\* session last finalized into it, those of the session before released.
C9_OnlyNewSessionReferences ==
    \A d \in ListIds :
        lists[d].alive => lists[d].bitmaps = SessionBitmaps(lists[d].src.calls)

(***************************************************************************)
(* C10                                                                     *)
(***************************************************************************)
\* the words a replay of L decodes
ReplayedWords(L) == IF ReaderEof([L EXCEPT !.cur = 0]) THEN <<>> ELSE L.buf

\* C10 as stated: once a session is finalized into a list, the list's
\* buffer is a copy of that session's stream, and getSize() is the byte
\* length of the buffer a replay walks.
C10_BufferIsSessionStream ==
    \A d \in ListIds :
        (lists[d].alive /\ lists[d].src = session /\ session.clean) =>
            /\ ReplayedWords(lists[d]) = rec.w
            /\ getSize(lists[d]) = 4 * Len(ReplayedWords(lists[d]))

(***************************************************************************)
(* SpecRefs: sessions that draw bitmaps follow one another; lists are made *)
(* of them, initialised again and destroyed.                               *)
(***************************************************************************)
NextRefs ==
    \/ DrawBitmapCall
    \/ Finish
    \/ Reset
    \/ PrepareDirty
    \/ GetDisplayListNew
    \/ GetDisplayListExisting
    \/ DestroyList

SpecRefs == Init /\ [][NextRefs]_vars

\* the number of times resource b occurs in a collection
Count(seq, b) == Cardinality({i \in 1..Len(seq) : seq[i] = b})
\* the references list d of ls holds to b
ListRefs(ls, d, b) == IF ls[d].alive THEN Count(ls[d].bitmaps, b) ELSE 0
RECURSIVE SumListRefs(_, _, _)
SumListRefs(ls, D, b) ==
    IF D = {} THEN 0
    ELSE LET d == CHOOSE x \in D : TRUE
         IN ListRefs(ls, d, b) + SumListRefs(ls, D \ {d}, b)

(***************************************************************************)
(* C11                                                                     *)
(***************************************************************************)
C11_Step ==
    \A b \in Bitmaps :
        /\ rec' = rec =>
               cache'[b] - cache[b] =
                   SumListRefs(lists', ListIds, b) - SumListRefs(lists, ListIds, b)
        /\ \A d \in ListIds :
            /\ (lists[d].alive /\ ~lists'[d].alive) =>
                   cache'[b] = cache[b] - Count(lists[d].bitmaps, b)
            /\ (~lists[d].alive /\ lists'[d].alive) =>
                   /\ Count(lists'[d].bitmaps, b) = Count(rec.bitmaps, b)
                   /\ cache'[b] = cache[b] + Count(rec.bitmaps, b)

\* C11: finalizing a list raises the refcount of R once per occurrence of R
\* in the list's collections, and destroying or clearing the list lowers it
\* by as much as the list held; the refcount is never negative, and with R
\* referenced from two lists destroying one leaves the other's reference.
C11_BalancedPerList ==
    [](\A b \in Bitmaps : cache[b] >= 0) /\ [][C11_Step]_vars

\* bitmap 1 was referenced from two lists; one was destroyed, the recorder
\* was reset, and the refcount is 1
C11_Witness ==
    \E d, e \in ListIds :
        /\ ~lists[d].alive /\ lists[d].src # <<>>
        /\ SessionBitmaps(lists[d].src.calls) = <<1>>
        /\ lists[e].alive /\ lists[e].bitmaps = <<1>>
        /\ rec.bitmaps = <<>>
        /\ cache[1] = 1

(***************************************************************************)
(* C12                                                                     *)
(***************************************************************************)
\* C12 as stated: the refcount of R is the sum over the live lists of the
\* references each holds to R.
C12_SumOverLists ==
    \A b \in Bitmaps : cache[b] = SumListRefs(lists, ListIds, b)

\* C12 as amended: the refcount of R is the sum over the live lists of the
\* references each holds to R, plus the references the recorder holds for
\* the operations recorded since its last reset().
C12_SumOverListsAndRecorder ==
    \A b \in Bitmaps :
        cache[b] = SumListRefs(lists, ListIds, b) + Count(rec.bitmaps, b)

\* a list and the recorder's session both hold bitmap 1
C12_Witness ==
    /\ \E d \in ListIds : lists[d].alive /\ Count(lists[d].bitmaps, 1) = 1
    /\ Count(rec.bitmaps, 1) = 2
    /\ cache[1] = 3

(***************************************************************************)
(* C13                                                                     *)
(***************************************************************************)
\* a live list, or the recorder since its last reset(), references b
Referenced(b) ==
    \/ \E d \in ListIds : ListRefs(lists, d, b) > 0
    \/ Count(rec.bitmaps, b) > 0

OpCount == 40
UnknownOp == OpCount
MaxDecodeLen == 3
\* the words of the buffers: two opcodes, one of them with the skip tag, and
\* a word that is no opcode.  As a skip length or an operand a word counts
\* for its value.
DecodeWords == {Save, Restore, OP_MAY_BE_SKIPPED_MASK + Restore, UnknownOp}
RECURSIVE SeqsUpTo(_, _)
SeqsUpTo(S, n) ==
    IF n = 0 THEN {<<>>}
    ELSE LET shorter == SeqsUpTo(S, n - 1)
         IN shorter \cup {Append(q, x) : q \in shorter, x \in S}
\* the buffers: no tagged word follows another, so that no skip length is
\* negative
DecodeBuffers ==
    {b \in SeqsUpTo(DecodeWords, MaxDecodeLen) \ {<<>>} :
        \A i \in 1..(Len(b) - 1) : ~(MayBeSkipped(b[i]) /\ MayBeSkipped(b[i + 1]))}

\* a list whose buffer holds the words b: mReader.setMemory(buffer, mSize)
RawList(b) ==
    [NoList EXCEPT !.alive = TRUE, !.buf = b, !.hasMem = TRUE,
                   !.mSize = 4 * Len(b), !.renderable = TRUE, !.src = NewSession]

InitDecode ==
    /\ rec = NewRecorder
    /\ session = NewSession
    /\ lists \in {[d \in ListIds |-> IF d = 1 THEN RawList(b) ELSE NoList] :
                     b \in DecodeBuffers}
    /\ cache = [b \in Bitmaps |-> 0]
    /\ threads = [t \in Threads |-> IdleThread]
    /\ nops = 0

NextDecode ==
    \/ threads[1].status = "idle" /\ StartReplay(1)
    \/ ReplayStep(1)
    \/ ReplayReturn(1)

SpecDecode == InitDecode /\ [][NextDecode]_vars

\* the list thread t is decoding, and the word under its cursor
Decoding(t) == lists[Top(threads[t].stack).dl]
InBuffer(L) == L.hasMem /\ ~L.freed /\ L.cur < L.mSize
CursorWord(t) == Decoding(t).buf[Decoding(t).cur \div 4 + 1]

(***************************************************************************)
(* C14                                                                     *)
(***************************************************************************)
\* thread t's pass is about to decode a word that is no opcode
AtUnknownOpcode(t) ==
    /\ threads[t].status = "run"
    /\ InBuffer(Decoding(t))
    /\ ~MayBeSkipped(CursorWord(t))
    /\ CursorWord(t) \notin 0..(OpCount - 1)

\* C14: a pass that meets an unknown or out-of-range opcode ends at that
\* opcode: it does not go on decoding and makes no further executor call.
C14_UnknownOpcodeAborts ==
    [][\A t \in Threads :
          AtUnknownOpcode(t) =>
              /\ threads'[t].status # "run"
              /\ threads'[t].log = threads[t].log]_vars

\* a pass went over an unknown opcode, made an executor call for an
\* operation that follows it, and returned as a pass that met none does
C14_Witness ==
    /\ threads[1].status = "done"
    /\ lists[1].buf = <<UnknownOp, Save, Save>>
    /\ threads[1].log = <<[m |-> "save", a |-> <<Save>>, lvl |-> 0]>>

(***************************************************************************)
(* C15                                                                     *)
(***************************************************************************)
\* C15: no decode step moves the cursor beyond the end of the buffer: the
\* opcode, the skip length and the operands it reads lie within mSize.
C15_CursorWithinBuffer ==
    \A d \in ListIds : lists[d].hasMem => lists[d].cur <= getSize(lists[d])

\* the operand of a save was read beyond the end of the buffer and passed
\* to the executor; a skip length carried the cursor beyond the end
C15_WitnessTruncated ==
    /\ lists[1].buf = <<Save>>
    /\ lists[1].cur = 8
    /\ Len(threads[1].log) = 1
C15_Witness ==
    /\ lists[1].buf = <<OP_MAY_BE_SKIPPED_MASK + Restore, UnknownOp>>
    /\ lists[1].cur = 8 + 4 * UnknownOp

(***************************************************************************)
(* SpecFair: a session that clips, draws rectangles and draws the nested   *)
(* list is recorded, finished and made a list, and a thread replays it,    *)
(* with the scheduling of replay: replay() is a loop that its thread runs  *)
(* without waiting for anything, so an iteration that can be made is made, *)
(* and so is the return at the end of the buffer.                          *)
(***************************************************************************)
MaxFairOps == 2
NextFair ==
    \/ NoReplayYet /\ nops < MaxFairOps /\ ClipRectCall
    \/ NoReplayYet /\ nops < MaxFairOps /\ DrawRectCall
    \/ NoReplayYet /\ nops < MaxFairOps /\ DrawDisplayListCall
    \/ NoReplayYet /\ Finish
    \/ NoReplayYet /\ GetDisplayListNew
    \/ Quiet /\ StartReplay(1)
    \/ ReplayStep(1)
    \/ ReplayReturn(1)

SpecFair ==
    /\ Init
    /\ [][NextFair]_vars
    /\ WF_vars(ReplayStep(1) \/ ReplayReturn(1))

(***************************************************************************)
(* C17                                                                     *)
(***************************************************************************)
\* an iteration of thread t moves the cursor of the list it decodes forward
C17_Iteration ==
    \A t \in Threads :
        (threads[t].status = "run" /\ lists' # lists) =>
            lists'[Top(threads[t].stack).dl].cur > lists[Top(threads[t].stack).dl].cur

\* C17: a replay started on a finalized list whose nested lists are acyclic
\* runs to completion, with culling enabled or disabled: every iteration
\* moves the cursor forward, the pass returns, and when it has returned
\* the cursor is at the end of the buffer.
C17_RunsToCompletion ==
    /\ [][C17_Iteration]_vars
    /\ (threads[1].status = "run") ~> (threads[1].status = "done")
    /\ [](\A t \in Threads :
              threads[t].status = "done" =>
                  lists[threads[t].top.dl].cur = getSize(lists[threads[t].top.dl]))

\* a replay with culling has returned from a list that draws a rectangle
\* and then the nested list: the calls of both are made
C17_Witness ==
    /\ threads[1].status = "done"
    /\ ClipChildren(threads[1].top.flags)
    /\ lists[threads[1].top.dl].kids # {}
    /\ Len(threads[1].log) = 3
    /\ threads[1].log[3].lvl = 1

(***************************************************************************)
(* SpecCycle: a session draws list 1 and is made list 1 again; the list    *)
(* is then replayed.  The replay is followed down to level MaxLevel.       *)
(***************************************************************************)
MaxLevel == 3
NextCycle ==
    \/ NoReplayYet /\ DrawRectCall
    \/ NoReplayYet /\ DrawDisplayListCall
    \/ NoReplayYet /\ Finish
    \/ NoReplayYet /\ GetDisplayListSelf
    \/ threads[1].status = "idle" /\ StartReplay(1)
    \/ Len(threads[1].stack) <= MaxLevel /\ ReplayStep(1)
    \/ ReplayReturn(1)

SpecCycle == Init /\ [][NextCycle]_vars

(***************************************************************************)
(* C16                                                                     *)
(***************************************************************************)
\* list d draws itself, directly or through the lists it draws
DrawsItself(d) == lists[d].alive /\ d \in Reachable(lists[d].kids)

\* C16: the replay of a list that draws itself does not nest without end:
\* its recursion level stays below the maximum.
C16_RecursionBounded ==
    \A t \in Threads :
        \A i \in 1..Len(threads[t].stack) :
            DrawsItself(threads[t].stack[i].dl) => threads[t].stack[i].level < MaxLevel

\* the replay of a list that draws itself is MaxLevel replays deep, each of
\* them of the same list, and has drawn the list's rectangle at the levels
\* above the last
C16_Witness ==
    /\ Len(threads[1].stack) = MaxLevel + 1
    /\ \A i \in 1..Len(threads[1].stack) : threads[1].stack[i].dl = 1
    /\ \E i \in 1..Len(threads[1].log) :
           threads[1].log[i].m = "drawRect" /\ threads[1].log[i].lvl = MaxLevel - 1

(***************************************************************************)
(* C20                                                                     *)
(***************************************************************************)
\* the sum of the translate calls that end the sequence of calls
RECURSIVE TrailingTranslation(_)
TrailingTranslation(calls) ==
    IF calls = <<>> \/ calls[Len(calls)].m # "translate" THEN <<0, 0>>
    ELSE LET c == calls[Len(calls)]
             rest == TrailingTranslation(SubSeq(calls, 1, Len(calls) - 1))
         IN <<rest[1] + c.a[1], rest[2] + c.a[2]>>

\* the words a step appends to the stream
Written == SubSeq(rec'.w, Len(rec.w) + 1, Len(rec'.w))
\* the step records one more call / is the finish() of the session
RecordsCall == session'.calls # session.calls
RecordedCall == session'.calls[Len(session'.calls)]
Finishes == ~session.finished /\ session'.finished
StreamOp(c) ==
    CASE c.m = "save" -> Save
      [] c.m = "clipRect" -> ClipRect
      [] OTHER -> CallOp(c)

\* what a call that is not a translate, or finish(), writes first: the one
\* Translate of the run before it, unless the run sums to zero
FlushesRun ==
    LET sum == TrailingTranslation(session.calls)
    IN IF sum # <<0, 0>>
       THEN /\ Len(Written) >= 3
            /\ SubSeq(Written, 1, 3) = <<Translate, sum[1], sum[2]>>
            /\ (RecordsCall /\ RecordedCall.m \notin RestoreMethods) =>
                   /\ Len(Written) >= 4
                   /\ StripSkipTag(Written[4]) = StreamOp(RecordedCall)
            /\ (RecordsCall /\ RecordedCall.m \in RestoreMethods) => Len(Written) = 3
            /\ Finishes => Len(Written) = 3
       ELSE Written = <<>> \/ Written[1] # Translate

\* C20 as stated: a translate call writes nothing to the stream; the run
\* is written as one Translate of the sums by the next call that is not a
\* translate, or by finish().
C20_Step ==
    /\ (RecordsCall /\ RecordedCall.m = "translate") => Written = <<>>
    /\ (RecordsCall /\ RecordedCall.m # "translate") => FlushesRun
    /\ Finishes => FlushesRun
C20_TranslateWritesNothing == [][C20_Step]_vars

\* C20 as amended: a translate call writes no Translate opcode: it writes
\* nothing, or the RestoreToCount of the restores recorded before it.  The
\* run is written as one Translate of the sums, none if both sums are zero,
\* first thing by the next call that is not a translate (before that call's
\* opcode; a restore writes only the Translate) or by finish().
C20_StepAmended ==
    /\ (RecordsCall /\ RecordedCall.m = "translate") =>
           \/ Written = <<>>
           \/ Len(Written) = 2 /\ Written[1] = RestoreToCount
    /\ (RecordsCall /\ RecordedCall.m # "translate") => FlushesRun
    /\ Finishes => FlushesRun
C20_Coalesced == [][C20_StepAmended]_vars

\* two translate calls and a call that is not one: the stream begins with
\* the Translate of their sum
C20_Witness ==
    /\ Len(session.calls) = 3
    /\ session.calls[1].m = "translate"
    /\ session.calls[2].m = "translate"
    /\ session.calls[3].m \notin {"translate"} \cup RestoreMethods
    /\ Len(rec.w) > 3
    /\ SubSeq(rec.w, 1, 3) = <<Translate, 8, 4>>

(***************************************************************************)
(* The whole opcode set.  The recorder's entry points, the switch of       *)
(* replay and the switch of output, operation by operation, as the fields  *)
(* each writes or reads after the opcode.                                  *)
(***************************************************************************)
SaveLayer == 3
SaveLayerAlpha == 4
Rotate == 6
Scale == 7
Skew == 8
SetMatrix == 9
ConcatMatrix == 10
DrawLayer == 13
DrawBitmapMatrix == 15
DrawBitmapRect == 16
DrawBitmapMesh == 17
DrawPatch == 18
DrawColor == 19
DrawRoundRect == 21
DrawCircle == 22
DrawOval == 23
DrawArc == 24
DrawLines == 26
DrawPoints == 27
DrawText == 28
DrawTextOnPath == 29
DrawPosText == 30
ResetShader == 31
SetupShader == 32
ResetColorFilter == 33
SetupColorFilter == 34
ResetShadow == 35
SetupShadow == 36
ResetPaintFilter == 37
SetupPaintFilter == 38
DrawGLFunction == 39

\* the fields each recording entry point adds after addOp, in order, named
\* after the add... call; "colors" stands for the addInt(1), addInts(colors)
\* or addInt(0) of drawBitmapMesh.  RestoreToCount and Translate are written
\* by insertRestoreToCount and insertTranlate; no entry point writes Restore.
RecorderFields(op) ==
    CASE op = Save -> <<"int">>
      [] op = RestoreToCount -> <<"int">>
      [] op = SaveLayer -> <<"bounds", "paint", "int">>
      [] op = SaveLayerAlpha -> <<"bounds", "int", "int">>
      [] op = Translate -> <<"point">>
      [] op = Rotate -> <<"float">>
      [] op = Scale -> <<"point">>
      [] op = Skew -> <<"point">>
      [] op = SetMatrix -> <<"matrix">>
      [] op = ConcatMatrix -> <<"matrix">>
      [] op = ClipRect -> <<"bounds", "int">>
      [] op = DrawDisplayList -> <<"displayList", "size", "int">>
      [] op = DrawLayer -> <<"int", "point", "paint">>
      [] op = DrawBitmap -> <<"bitmap", "point", "paint">>
      [] op = DrawBitmapMatrix -> <<"bitmap", "matrix", "paint">>
      [] op = DrawBitmapRect -> <<"bitmap", "bounds", "bounds", "paint">>
      [] op = DrawBitmapMesh -> <<"bitmap", "int", "int", "floats", "colors", "paint">>
      [] op = DrawPatch -> <<"bitmap", "ints", "ints", "uints", "bounds", "paint">>
      [] op = DrawColor -> <<"int", "int">>
      [] op = DrawRect -> <<"bounds", "paint">>
      [] op = DrawRoundRect -> <<"bounds", "point", "paint">>
      [] op = DrawCircle -> <<"point", "float", "paint">>
      [] op = DrawOval -> <<"bounds", "paint">>
      [] op = DrawArc -> <<"bounds", "point", "int", "paint">>
      [] op = DrawPath -> <<"path", "paint">>
      [] op = DrawLines -> <<"floats", "paint">>
      [] op = DrawPoints -> <<"floats", "paint">>
      [] op = DrawText -> <<"text", "int", "point", "paint", "float">>
      [] op = DrawTextOnPath -> <<"text", "int", "path", "float", "float", "paint">>
      [] op = DrawPosText -> <<"text", "int", "floats", "paint">>
      [] op = ResetShader -> <<>>
      [] op = SetupShader -> <<"shader">>
      [] op = ResetColorFilter -> <<>>
      [] op = SetupColorFilter -> <<"filter">>
      [] op = ResetShadow -> <<>>
      [] op = SetupShadow -> <<"float", "point", "int">>
      [] op = ResetPaintFilter -> <<>>
      [] op = SetupPaintFilter -> <<"int", "int">>
      [] op = DrawGLFunction -> <<"int">>
      [] OTHER -> <<>>

\* the entry points that test quickReject and pass the result to addOp
RejectOps ==
    {DrawDisplayList, DrawBitmap, DrawBitmapMatrix, DrawBitmapRect, DrawPatch,
     DrawRect, DrawRoundRect, DrawPath, DrawText}

\* a replay whose DrawText case reads the length before the paint
ReplayFields_lengthBeforePaint(op) ==
    CASE op = Save -> <<"getInt">>
      [] op = Restore -> <<>>
      [] op = RestoreToCount -> <<"getInt">>
      [] op = SaveLayer -> <<"getFloat", "getFloat", "getFloat", "getFloat", "getPaint", "getInt">>
      [] op = SaveLayerAlpha -> <<"getFloat", "getFloat", "getFloat", "getFloat", "getInt", "getInt">>
      [] op = Translate -> <<"getFloat", "getFloat">>
      [] op = Rotate -> <<"getFloat">>
      [] op = Scale -> <<"getFloat", "getFloat">>
      [] op = Skew -> <<"getFloat", "getFloat">>
      [] op = SetMatrix -> <<"getMatrix">>
      [] op = ConcatMatrix -> <<"getMatrix">>
      [] op = ClipRect -> <<"getFloat", "getFloat", "getFloat", "getFloat", "getInt">>
      [] op = DrawDisplayList -> <<"getDisplayList", "getUInt", "getUInt", "getInt">>
      [] op = DrawLayer -> <<"getInt", "getFloat", "getFloat", "getPaint">>
      [] op = DrawBitmap -> <<"getBitmap", "getFloat", "getFloat", "getPaint">>
      [] op = DrawBitmapMatrix -> <<"getBitmap", "getMatrix", "getPaint">>
      [] op = DrawBitmapRect -> <<"getBitmap", "getFloat", "getFloat", "getFloat", "getFloat", "getFloat", "getFloat", "getFloat", "getFloat", "getPaint">>
      [] op = DrawBitmapMesh -> <<"getBitmap", "getInt", "getInt", "getFloats", "hasColors", "getPaint">>
      [] op = DrawPatch -> <<"getBitmap", "getInts", "getInts", "getUInts", "getFloat", "getFloat", "getFloat", "getFloat", "getPaint">>
      [] op = DrawColor -> <<"getInt", "getInt">>
      [] op = DrawRect -> <<"getFloat", "getFloat", "getFloat", "getFloat", "getPaint">>
      [] op = DrawRoundRect -> <<"getFloat", "getFloat", "getFloat", "getFloat", "getFloat", "getFloat", "getPaint">>
      [] op = DrawCircle -> <<"getFloat", "getFloat", "getFloat", "getPaint">>
      [] op = DrawOval -> <<"getFloat", "getFloat", "getFloat", "getFloat", "getPaint">>
      [] op = DrawArc -> <<"getFloat", "getFloat", "getFloat", "getFloat", "getFloat", "getFloat", "getInt", "getPaint">>
      [] op = DrawPath -> <<"getPath", "getPaint">>
      [] op = DrawLines -> <<"getFloats", "getPaint">>
      [] op = DrawPoints -> <<"getFloats", "getPaint">>
      [] op = DrawText -> <<"getText", "getInt", "getFloat", "getFloat", "getFloat", "getPaint">>
      [] op = DrawTextOnPath -> <<"getText", "getInt", "getPath", "getFloat", "getFloat", "getPaint">>
      [] op = DrawPosText -> <<"getText", "getInt", "getFloats", "getPaint">>
      [] op = ResetShader -> <<>>
      [] op = SetupShader -> <<"getShader">>
      [] op = ResetColorFilter -> <<>>
      [] op = SetupColorFilter -> <<"getColorFilter">>
      [] op = ResetShadow -> <<>>
      [] op = SetupShadow -> <<"getFloat", "getFloat", "getFloat", "getInt">>
      [] op = ResetPaintFilter -> <<>>
      [] op = SetupPaintFilter -> <<"getInt", "getInt">>
      [] op = DrawGLFunction -> <<"getInt">>
      [] OTHER -> <<>>

\* the reads of each case of replay's switch, in order, named after the
\* get... call; "hasColors" stands for  hasColors = getInt();
\* colors = hasColors ? getInts(colorsCount) : NULL
ReplayFields(op) ==
    CASE op = Save -> <<"getInt">>
      [] op = Restore -> <<>>
      [] op = RestoreToCount -> <<"getInt">>
      [] op = SaveLayer -> <<"getFloat", "getFloat", "getFloat", "getFloat", "getPaint", "getInt">>
      [] op = SaveLayerAlpha -> <<"getFloat", "getFloat", "getFloat", "getFloat", "getInt", "getInt">>
      [] op = Translate -> <<"getFloat", "getFloat">>
      [] op = Rotate -> <<"getFloat">>
      [] op = Scale -> <<"getFloat", "getFloat">>
      [] op = Skew -> <<"getFloat", "getFloat">>
      [] op = SetMatrix -> <<"getMatrix">>
      [] op = ConcatMatrix -> <<"getMatrix">>
      [] op = ClipRect -> <<"getFloat", "getFloat", "getFloat", "getFloat", "getInt">>
      [] op = DrawDisplayList -> <<"getDisplayList", "getUInt", "getUInt", "getInt">>
      [] op = DrawLayer -> <<"getInt", "getFloat", "getFloat", "getPaint">>
      [] op = DrawBitmap -> <<"getBitmap", "getFloat", "getFloat", "getPaint">>
      [] op = DrawBitmapMatrix -> <<"getBitmap", "getMatrix", "getPaint">>
      [] op = DrawBitmapRect -> <<"getBitmap", "getFloat", "getFloat", "getFloat", "getFloat", "getFloat", "getFloat", "getFloat", "getFloat", "getPaint">>
      [] op = DrawBitmapMesh -> <<"getBitmap", "getInt", "getInt", "getFloats", "hasColors", "getPaint">>
      [] op = DrawPatch -> <<"getBitmap", "getInts", "getInts", "getUInts", "getFloat", "getFloat", "getFloat", "getFloat", "getPaint">>
      [] op = DrawColor -> <<"getInt", "getInt">>
      [] op = DrawRect -> <<"getFloat", "getFloat", "getFloat", "getFloat", "getPaint">>
      [] op = DrawRoundRect -> <<"getFloat", "getFloat", "getFloat", "getFloat", "getFloat", "getFloat", "getPaint">>
      [] op = DrawCircle -> <<"getFloat", "getFloat", "getFloat", "getPaint">>
      [] op = DrawOval -> <<"getFloat", "getFloat", "getFloat", "getFloat", "getPaint">>
      [] op = DrawArc -> <<"getFloat", "getFloat", "getFloat", "getFloat", "getFloat", "getFloat", "getInt", "getPaint">>
      [] op = DrawPath -> <<"getPath", "getPaint">>
      [] op = DrawLines -> <<"getFloats", "getPaint">>
      [] op = DrawPoints -> <<"getFloats", "getPaint">>
      [] op = DrawText -> <<"getText", "getInt", "getFloat", "getFloat", "getPaint", "getFloat">>
      [] op = DrawTextOnPath -> <<"getText", "getInt", "getPath", "getFloat", "getFloat", "getPaint">>
      [] op = DrawPosText -> <<"getText", "getInt", "getFloats", "getPaint">>
      [] op = ResetShader -> <<>>
      [] op = SetupShader -> <<"getShader">>
      [] op = ResetColorFilter -> <<>>
      [] op = SetupColorFilter -> <<"getColorFilter">>
      [] op = ResetShadow -> <<>>
      [] op = SetupShadow -> <<"getFloat", "getFloat", "getFloat", "getInt">>
      [] op = ResetPaintFilter -> <<>>
      [] op = SetupPaintFilter -> <<"getInt", "getInt">>
      [] op = DrawGLFunction -> <<"getInt">>
      [] OTHER -> <<>>

\* an output whose DrawText case does not read the length
OutputFields_textWithoutLength(op) ==
    IF op = DrawText
    THEN <<"getText", "getInt", "getFloat", "getFloat", "getPaint">>
    ELSE ReplayFields(op)

\* the reads of each case of output's switch
OutputFields(op) ==
    CASE op = Save -> <<"getInt">>
      [] op = Restore -> <<>>
      [] op = RestoreToCount -> <<"getInt">>
      [] op = SaveLayer -> <<"getFloat", "getFloat", "getFloat", "getFloat", "getPaint", "getInt">>
      [] op = SaveLayerAlpha -> <<"getFloat", "getFloat", "getFloat", "getFloat", "getInt", "getInt">>
      [] op = Translate -> <<"getFloat", "getFloat">>
      [] op = Rotate -> <<"getFloat">>
      [] op = Scale -> <<"getFloat", "getFloat">>
      [] op = Skew -> <<"getFloat", "getFloat">>
      [] op = SetMatrix -> <<"getMatrix">>
      [] op = ConcatMatrix -> <<"getMatrix">>
      [] op = ClipRect -> <<"getFloat", "getFloat", "getFloat", "getFloat", "getInt">>
      [] op = DrawDisplayList -> <<"getDisplayList", "getUInt", "getUInt", "getInt">>
      [] op = DrawLayer -> <<"getInt", "getFloat", "getFloat", "getPaint">>
      [] op = DrawBitmap -> <<"getBitmap", "getFloat", "getFloat", "getPaint">>
      [] op = DrawBitmapMatrix -> <<"getBitmap", "getMatrix", "getPaint">>
      [] op = DrawBitmapRect -> <<"getBitmap", "getFloat", "getFloat", "getFloat", "getFloat", "getFloat", "getFloat", "getFloat", "getFloat", "getPaint">>
      [] op = DrawBitmapMesh -> <<"getBitmap", "getInt", "getInt", "getFloats", "hasColors", "getPaint">>
      [] op = DrawPatch -> <<"getBitmap", "getInts", "getInts", "getUInts", "getFloat", "getFloat", "getFloat", "getFloat", "getPaint">>
      [] op = DrawColor -> <<"getInt", "getInt">>
      [] op = DrawRect -> <<"getFloat", "getFloat", "getFloat", "getFloat", "getPaint">>
      [] op = DrawRoundRect -> <<"getFloat", "getFloat", "getFloat", "getFloat", "getFloat", "getFloat", "getPaint">>
      [] op = DrawCircle -> <<"getFloat", "getFloat", "getFloat", "getPaint">>
      [] op = DrawOval -> <<"getFloat", "getFloat", "getFloat", "getFloat", "getPaint">>
      [] op = DrawArc -> <<"getFloat", "getFloat", "getFloat", "getFloat", "getFloat", "getFloat", "getInt", "getPaint">>
      [] op = DrawPath -> <<"getPath", "getPaint">>
      [] op = DrawLines -> <<"getFloats", "getPaint">>
      [] op = DrawPoints -> <<"getFloats", "getPaint">>
      [] op = DrawText -> <<"getText", "getInt", "getFloat", "getFloat", "getPaint", "getFloat">>
      [] op = DrawTextOnPath -> <<"getText", "getInt", "getPath", "getFloat", "getFloat", "getPaint">>
      [] op = DrawPosText -> <<"getText", "getInt", "getFloats", "getPaint">>
      [] op = ResetShader -> <<>>
      [] op = SetupShader -> <<"getShader">>
      [] op = ResetColorFilter -> <<>>
      [] op = SetupColorFilter -> <<"getColorFilter">>
      [] op = ResetShadow -> <<>>
      [] op = SetupShadow -> <<"getFloat", "getFloat", "getFloat", "getInt">>
      [] op = ResetPaintFilter -> <<>>
      [] op = SetupPaintFilter -> <<"getInt", "getInt">>
      [] op = DrawGLFunction -> <<"getInt">>
      [] OTHER -> <<>>

\* the cases output runs for an opcode: DrawPosText has no break and runs
\* on into ResetShader; a word without a case only reaches default
OutputHandlers(op) ==
    IF op = DrawPosText THEN <<DrawPosText, ResetShader>>
    ELSE IF op \in 0..(OpCount - 1) THEN <<op>>
    ELSE <<>>

(***************************************************************************)
(* The stream as typed words: an int, a float, or four bytes of a text.    *)
(* Reading a word as the other type gives the bits, not the value.         *)
(***************************************************************************)
IntWord(n) == [k |-> "i", v |-> <<n>>]
FloatWord(x) == [k |-> "f", v |-> <<x>>]
BytesWord(b) == [k |-> "b", v |-> b]
FloatBias == 2 ^ 30
AsInt(w) ==
    IF w.k = "i" THEN w.v[1]
    ELSE IF w.k = "f" THEN FloatBias + w.v[1] ELSE FloatBias
AsFloat(w) ==
    IF w.k = "f" THEN w.v[1]
    ELSE IF w.k = "i" THEN w.v[1] - FloatBias ELSE 0 - FloatBias

\* operands: an int (a pointer is one), a float, a float array, an int
\* array, a text
IntArg(n) == [k |-> "int", v |-> <<n>>]
FloatArg(x) == [k |-> "float", v |-> <<x>>]
FloatsArg(xs) == [k |-> "floats", v |-> xs]
IntsArg(ns) == [k |-> "ints", v |-> ns]
TextArg(bytes) == [k |-> "text", v |-> bytes]

\* SkWriter32::writePad: the bytes, padded with zeros to whole words
WritePad(bytes) ==
    [j \in 1..((Len(bytes) + 3) \div 4) |->
        BytesWord([i \in 1..4 |->
            IF 4 * (j - 1) + i <= Len(bytes) THEN bytes[4 * (j - 1) + i] ELSE 0])]

\* addInt, addFloat, addFloats, addInts / addUInts, addText
AddArg(p) ==
    CASE p.k = "int" -> <<IntWord(p.v[1])>>
      [] p.k = "float" -> <<FloatWord(p.v[1])>>
      [] p.k = "floats" ->
             <<IntWord(Len(p.v))>> \o [j \in 1..Len(p.v) |-> FloatWord(p.v[j])]
      [] p.k = "ints" ->
             <<IntWord(Len(p.v))>> \o [j \in 1..Len(p.v) |-> IntWord(p.v[j])]
      [] p.k = "text" -> <<IntWord(Len(p.v))>> \o WritePad(p.v)

RECURSIVE AddArgs(_)
AddArgs(ps) == IF ps = <<>> THEN <<>> ELSE AddArg(Head(ps)) \o AddArgs(Tail(ps))

\* The operands field number i of a call passes to its add... call: addPoint
\* adds two floats, addBounds four, addSize two ints, and the add... of an
\* object its pointer.  n tells the calls of one entry point apart: it sets
\* the values, the lengths of arrays and texts, and whether colors is NULL.
FieldArgs(kind, i, n) ==
    LET x == 10 * i + n
    IN CASE kind = "float" -> <<FloatArg(x)>>
         [] kind = "point" -> <<FloatArg(x), FloatArg(x + 1)>>
         [] kind = "bounds" ->
                <<FloatArg(x), FloatArg(x + 1), FloatArg(x + 2), FloatArg(x + 3)>>
         [] kind = "size" -> <<IntArg(x), IntArg(x + 1)>>
         [] kind = "floats" -> <<FloatsArg([j \in 1..n |-> x + j])>>
         [] kind \in {"ints", "uints"} -> <<IntsArg([j \in 1..n |-> x + j])>>
         [] kind = "text" -> <<TextArg([j \in 1..(2 * n + 1) |-> x + j])>>
         [] kind = "colors" ->
                IF n = 1 THEN <<IntArg(0)>>
                ELSE <<IntArg(1), IntsArg([j \in 1..n |-> x + j])>>
         [] OTHER -> <<IntArg(x)>>

RECURSIVE CallArgs(_, _, _)
CallArgs(kinds, i, n) ==
    IF i > Len(kinds) THEN <<>>
    ELSE FieldArgs(kinds[i], i, n) \o CallArgs(kinds, i + 1, n)

\* the word at index p of the buffer; beyond the buffer, any word
CodecWordAt(buf, p) == IF p \in 1..Len(buf) THEN buf[p] ELSE IntWord(0)

\* getInts / getUInts / getFloats: the count, then mReader.skip(count * 4);
\* a count that runs beyond the buffer takes the cursor out of it
ReadArray(buf, p, float) ==
    LET count == AsInt(CodecWordAt(buf, p))
    IN IF count < 0 \/ p + count > Len(buf)
       THEN [vals |-> <<IF float THEN FloatsArg(<<>>) ELSE IntsArg(<<>>)>>,
             next |-> Len(buf) + 2]
       ELSE [vals |-> <<IF float
                        THEN FloatsArg([j \in 1..count |-> AsFloat(buf[p + j])])
                        ELSE IntsArg([j \in 1..count |-> AsInt(buf[p + j])])>>,
             next |-> p + 1 + count]

\* getText: the length, then mReader.skip(length), which SkReader32 rounds
\* up to whole words
ReadText(buf, p) ==
    LET length == AsInt(CodecWordAt(buf, p))
        words == (length + 3) \div 4
    IN IF length < 0 \/ p + words > Len(buf)
       THEN [vals |-> <<TextArg(<<>>)>>, next |-> Len(buf) + 2]
       ELSE [vals |-> <<TextArg([j \in 1..length |->
                          LET w == buf[p + 1 + ((j - 1) \div 4)]
                          IN IF w.k = "b" THEN w.v[((j - 1) % 4) + 1] ELSE 0 - 1])>>,
             next |-> p + 1 + words]

\* one get... of a case, at index p: the operands it yields and the index
\* after it
ReadField(kind, buf, p) ==
    CASE kind = "getFloat" ->
             [vals |-> <<FloatArg(AsFloat(CodecWordAt(buf, p)))>>, next |-> p + 1]
      [] kind = "getFloats" -> ReadArray(buf, p, TRUE)
      [] kind \in {"getInts", "getUInts"} -> ReadArray(buf, p, FALSE)
      [] kind = "getText" -> ReadText(buf, p)
      [] kind = "hasColors" ->
             LET flag == AsInt(CodecWordAt(buf, p))
             IN IF flag # 0
                THEN LET r == ReadArray(buf, p + 1, FALSE)
                     IN [vals |-> <<IntArg(flag)>> \o r.vals, next |-> r.next]
                ELSE [vals |-> <<IntArg(flag)>>, next |-> p + 1]
      [] OTHER -> [vals |-> <<IntArg(AsInt(CodecWordAt(buf, p)))>>, next |-> p + 1]

RECURSIVE ReadFields(_, _, _)
ReadFields(kinds, buf, p) ==
    IF kinds = <<>> THEN [vals |-> <<>>, next |-> p]
    ELSE LET first == ReadField(Head(kinds), buf, p)
             rest == ReadFields(Tail(kinds), buf, first.next)
         IN [vals |-> first.vals \o rest.vals, next |-> rest.next]

\* the head of an iteration of replay without culling, and of output: the
\* opcode, the skip length read and dropped when the opcode is tagged, the
\* tag stripped.  Gives the opcode and the index of the first operand.
ReadOp(buf, p) ==
    LET op0 == AsInt(CodecWordAt(buf, p))
    IN IF MayBeSkipped(op0)
       THEN [op |-> StripSkipTag(op0), next |-> p + 2]
       ELSE [op |-> op0, next |-> p + 1]

(***************************************************************************)
(* SpecCodec: calls of any entry point are recorded and the stream is made *)
(* a list; replay without culling decodes it, and output describes it.     *)
(* rec.w and the list's buffer hold typed words here; session.calls holds  *)
(* for each call its opcode, its operands and the index where its words    *)
(* end; the log of thread 1 is what replay decoded and the log of thread 2 *)
(* what output described.                                                  *)
(***************************************************************************)
MaxCodecOps == 2
\* the opcodes an entry point or an insert... writes
RecordedOps == (0..(OpCount - 1)) \ {Restore}
\* the entry points whose operands vary in length
VaryingOps ==
    {DrawBitmapMesh, DrawPatch, DrawLines, DrawPoints, DrawText, DrawTextOnPath,
     DrawPosText}
CodecInputs ==
    {[op |-> op, n |-> n, reject |-> rj] :
        op \in RecordedOps, n \in {1, 2}, rj \in BOOLEAN} \cap
    {c \in [op : RecordedOps, n : {1, 2}, reject : BOOLEAN] :
        /\ c.n = 2 => c.op \in VaryingOps
        /\ c.reject => c.op \in RejectOps}

InitCodec ==
    /\ rec = NewRecorder
    /\ session = NewSession
    /\ lists = [d \in ListIds |-> NoList]
    /\ cache = [b \in Bitmaps |-> 0]
    /\ threads = [t \in Threads |-> IdleThread]
    /\ nops = 0

\* an entry point: addOp(op) or addOp(op, reject), the fields, addSkip
CodecRecord ==
    /\ nops < MaxCodecOps
    /\ ~session.finished
    /\ \E c \in CodecInputs :
        LET args == CallArgs(RecorderFields(c.op), 1, c.n)
            body == AddArgs(args)
            head == IF c.reject
                    THEN <<IntWord(OP_MAY_BE_SKIPPED_MASK + c.op), IntWord(Len(body))>>
                    ELSE <<IntWord(c.op)>>
            w2 == rec.w \o head \o body
        IN /\ rec' = [rec EXCEPT !.w = w2]
           /\ session' = [session EXCEPT
                  !.calls = Append(@, [op |-> c.op, vals |-> args, end |-> Len(w2)])]
    /\ nops' = nops + 1
    /\ UNCHANGED <<lists, cache, threads>>

\* finish() and getDisplayList(NULL)
CodecFinish ==
    /\ ~session.finished
    /\ rec.w # <<>>
    /\ session' = [session EXCEPT !.finished = TRUE]
    /\ lists' = [lists EXCEPT ![1] = [RawList(rec.w) EXCEPT !.src = session']]
    /\ UNCHANGED <<rec, cache, threads, nops>>

\* replay and output rewind the list's reader; t = 1 is replay, 2 output
CodecStart(t) ==
    /\ lists[1].alive
    /\ threads[t].status = "idle"
    /\ Quiet
    /\ threads' = [threads EXCEPT ![t].status = "run"]
    /\ lists' = [lists EXCEPT ![1].cur = 0]
    /\ UNCHANGED <<rec, session, cache, nops>>

CodecReturn(t) ==
    /\ threads[t].status = "run"
    /\ ReaderEof(lists[1])
    /\ threads' = [threads EXCEPT ![t].status = "done"]
    /\ UNCHANGED <<rec, session, lists, cache, nops>>

\* one iteration of replay, flags without kReplayFlag_ClipChildren
CodecReplayStep ==
    /\ threads[1].status = "run"
    /\ ~ReaderEof(lists[1])
    /\ LET o == ReadOp(lists[1].buf, lists[1].cur \div 4 + 1)
           d == ReadFields(ReplayFields(o.op), lists[1].buf, o.next)
       IN /\ threads' = [threads EXCEPT
                 ![1].log = Append(@, [op |-> o.op, vals |-> d.vals])]
          /\ lists' = [lists EXCEPT ![1].cur = 4 * (d.next - 1)]
    /\ UNCHANGED <<rec, session, cache, nops>>

\* one iteration of output: every case it runs logs one entry
CodecOutputStep ==
    /\ threads[2].status = "run"
    /\ ~ReaderEof(lists[1])
    /\ LET o == ReadOp(lists[1].buf, lists[1].cur \div 4 + 1)
           d == ReadFields(OutputFields(o.op), lists[1].buf, o.next)
           h == OutputHandlers(o.op)
       IN /\ threads' = [threads EXCEPT
                 ![2].log = @ \o [j \in 1..Len(h) |-> [handler |-> h[j], op |-> o.op]]]
          /\ lists' = [lists EXCEPT ![1].cur = 4 * (d.next - 1)]
    /\ UNCHANGED <<rec, session, cache, nops>>

NextCodec ==
    \/ CodecRecord
    \/ CodecFinish
    \/ CodecStart(1)
    \/ CodecReplayStep
    \/ CodecReturn(1)
    \/ CodecStart(2)
    \/ CodecOutputStep
    \/ CodecReturn(2)

SpecCodec == InitCodec /\ [][NextCodec]_vars

\* the index where the words of the first k recorded calls end
EndOfCall(k) == IF k = 0 THEN 0 ELSE session.calls[k].end

(***************************************************************************)
(* C18                                                                     *)
(***************************************************************************)
\* C18: output logs one entry per encoded operation, tagged or not, the
\* entry of the case of that operation's opcode, and no other.
C18_OneEntryPerOperation ==
    LET log == threads[2].log
    IN /\ threads[2].status \in {"run", "done"} =>
              /\ Len(log) <= Len(session.calls)
              /\ \A i \in 1..Len(log) : log[i].handler = session.calls[i].op
       /\ threads[2].status = "done" => Len(log) = Len(session.calls)

\* output has described a list that holds one DrawPosText: two entries,
\* the second one logged by the case of ResetShader
C18_Witness ==
    /\ threads[2].status = "done"
    /\ Len(session.calls) = 1
    /\ session.calls[1].op = DrawPosText
    /\ threads[2].log = <<[handler |-> DrawPosText, op |-> DrawPosText],
                          [handler |-> ResetShader, op |-> DrawPosText]>>

(***************************************************************************)
(* C19                                                                     *)
(***************************************************************************)
\* C19: for every operation the recorder writes, replay reads the fields
\* the recorder wrote: each decoded operand equals the recorded one, and
\* after each operation the cursor is where the next recorded one begins.
C19_DecodeIsEncodeInverse ==
    LET log == threads[1].log
    IN /\ threads[1].status \in {"run", "done"} =>
              /\ Len(log) <= Len(session.calls)
              /\ \A i \in 1..Len(log) :
                     /\ log[i].op = session.calls[i].op
                     /\ log[i].vals = session.calls[i].vals
       /\ threads[1].status = "run" => lists[1].cur = 4 * EndOfCall(Len(log))
       /\ threads[1].status = "done" => Len(log) = Len(session.calls)

\* replay has decoded a tagged drawText of five bytes, then a drawBitmapMesh
\* with colors
C19_Witness ==
    /\ threads[1].status = "done"
    /\ Len(threads[1].log) = 2
    /\ threads[1].log[1].op = DrawText
    /\ Len(threads[1].log[1].vals[1].v) = 5
    /\ MayBeSkipped(AsInt(lists[1].buf[1]))
    /\ threads[1].log[2].op = DrawBitmapMesh
    /\ threads[1].log[2].vals[5] = IntArg(1)

(***************************************************************************)
(* SpecState: sessions of state calls only (save, restore, restoreToCount, *)
(* translate), finished, made a list, and followed by further sessions on  *)
(* the same recorder after reset() and prepareDirty().                     *)
(***************************************************************************)
MaxStateOps == 4

RecordState(r, call) ==
    /\ nops < MaxStateOps
    /\ session.prepared
    /\ ~session.finished
    /\ rec' = r
    /\ session' = [session EXCEPT !.calls = Append(@, call)]
    /\ nops' = nops + 1
    /\ UNCHANGED <<lists, cache, threads>>

StateSave == RecordState(Recorder_save(rec, SaveFlags), [m |-> "save", a |-> <<SaveFlags>>])
StateRestore == RecordState(Recorder_restore(rec), [m |-> "restore", a |-> <<>>])
StateRestoreToCount ==
    \E k \in CountInputs :
        RecordState(Recorder_restoreToCount(rec, k), [m |-> "restoreToCount", a |-> <<k>>])
StateTranslate ==
    \E d \in TranslateInputs :
        RecordState(Recorder_translate(rec, d[1], d[2]), [m |-> "translate", a |-> d])

NextState ==
    \/ StateSave
    \/ StateRestore
    \/ StateRestoreToCount
    \/ StateTranslate
    \/ Finish
    \/ Reset
    \/ PrepareDirty
    \/ GetDisplayListNew

SpecState == Init /\ [][NextState]_vars

\* C30: the recorder never has a pending translation and a pending restore
\* target at the same time: translate writes the pending restore before it
\* returns, and restore / restoreToCount write the pending translation.
C30_OnePendingAtMost == ~(rec.hasT /\ rec.rsc >= 0)

\* a translate was recorded while a restore was pending: the restore is in
\* the stream and only the translation is pending
C30_Witness ==
    /\ Len(session.calls) >= 2
    /\ LastCall.m = "translate"
    /\ session.calls[Len(session.calls) - 1].m \in RestoreMethods
    /\ rec.hasT
    /\ rec.rsc < 0
    /\ Len(rec.w) >= 2
    /\ rec.w[Len(rec.w) - 1] = RestoreToCount

\* the executor calls a stream of state operations decodes to, for a replay
\* that starts at save count saveCount
RECURSIVE StreamCalls(_, _)
StreamCalls(w, saveCount) ==
    IF w = <<>> THEN <<>>
    ELSE LET op == Head(w)
             n == NumOperands(op)
             a == SubSeq(w, 2, n + 1)
         IN <<Dispatch(op, a, saveCount, 0)>>
                \o StreamCalls(SubSeq(w, n + 2, Len(w)), saveCount)

\* the state an executor is left in by the calls of a stream / by the calls
\* of the session themselves
StreamState(w) == ExecState(DirectApply(<<FirstSnapshot>>, StreamCalls(w, 0)))
IssuedState(calls) == ExecState(DirectApply(<<FirstSnapshot>>, calls))

\* C21 as stated: after finish() nothing is pending (no restore target, no
\* translation): both have been written, so the stream, and the buffer of a
\* list made of the session by getDisplayList, holds every state change the
\* session issued: its operations leave the save depth and the translation
\* the session's calls leave.
C21_FinishFlushesEverything ==
    session.finished =>
        /\ rec.rsc < 0
        /\ ~rec.hasT
        /\ session.clean => StreamState(rec.w) = IssuedState(session.calls)
        /\ \A d \in ListIds :
               (lists[d].alive /\ lists[d].src = session /\ session.clean) =>
                   StreamState(lists[d].buf) = IssuedState(session.calls)

\* save(); restore(); restore(); restore(); finish(): the stream holds the
\* Save alone
C21_Witness ==
    /\ session.finished
    /\ Len(session.calls) = 4
    /\ session.calls[1].m = "save"
    /\ \A i \in 2..4 : session.calls[i].m = "restore"
    /\ rec.w = <<Save, SaveFlags>>
    /\ \E d \in ListIds : lists[d].alive /\ lists[d].src = session /\ lists[d].buf = rec.w

\* an executor that has one save of its own when replay is called: replay
\* takes saveCount = getSaveCount() - 1 from it
ExecutorStart == <<FirstSnapshot, FirstSnapshot>>
ReplaySaveCount(snaps) == Len(snaps) - 1

\* the save depths the executor goes through while the operations of
\* stream w are replayed on it
ReplayDepths(w, snaps) ==
    LET calls == StreamCalls(w, ReplaySaveCount(snaps))
    IN {Len(DirectApply(snaps, SubSeq(calls, 1, k))) : k \in 0..Len(calls)}

\* the values of the RestoreToCount operations of stream w
RestoreValues(w) ==
    LET calls == StreamCalls(w, 0)
    IN {calls[i].a[1] : i \in {j \in 1..Len(calls) : calls[j].m = "restoreToCount"}}

\* C28 as stated: every RestoreToCount value v in the stream of a finished
\* session is at least 1, so that a replay, whose restore target is
\* (save count at start - 1 + v), never takes the executor's save depth
\* below the depth it started at, whatever calls were recorded.
C28_RestoreTargetAtLeastStart ==
    \A d \in ListIds :
        (lists[d].alive /\ lists[d].src.finished) =>
            /\ \A v \in RestoreValues(lists[d].buf) : v >= 1
            /\ \A depth \in ReplayDepths(lists[d].buf, ExecutorStart) :
                   depth >= Len(ExecutorStart)

\* prepareDirty(); restore(); finish(); getDisplayList(NULL): the list is
\* the one operation RestoreToCount 0
C28_Witness ==
    \E d \in ListIds :
        /\ lists[d].alive
        /\ lists[d].src = session
        /\ session.finished
        /\ session.calls = <<[m |-> "restore", a |-> <<>>]>>
        /\ lists[d].buf = <<RestoreToCount, 0>>
        /\ 1 \in ReplayDepths(lists[d].buf, ExecutorStart)

(***************************************************************************)
(* SpecFlag: sessions of state calls and draw calls on one recorder, each  *)
(* finished and made a new list or put into an existing one, with reset()  *)
(* and prepareDirty() between them.                                        *)
(***************************************************************************)
NextFlag ==
    \/ SaveCall
    \/ TranslateCall
    \/ ClipRectCall
    \/ DrawRectCall
    \/ DrawDisplayListCall
    \/ Finish
    \/ Reset
    \/ PrepareDirty
    \/ GetDisplayListNew
    \/ GetDisplayListExisting

SpecFlag == Init /\ [][NextFlag]_vars

HasDrawCall(calls) == \E i \in 1..Len(calls) : calls[i].m \in DrawMethods

MovingCalls ==
    <<[m |-> "translate", a |-> <<4, 2>>], [m |-> "drawRect", a |-> <<0, 0, 2, 2, 1>>]>>
MovingRecorder ==
    Recorder_finish(Recorder_drawRect(Recorder_translate(NewRecorder, 4, 2), <<0, 0, 2, 2>>, 1))
MovingList == PrebuiltList(MovingRecorder, MovingCalls)

InitNested ==
    /\ rec = NewRecorder
    /\ session = NewSession
    /\ \E c \in {ChildList, MovingList} :
           lists = [d \in ListIds |-> IF d = 1 THEN c ELSE NoList]
    /\ cache = [b \in Bitmaps |-> 0]
    /\ threads = [t \in Threads |-> IdleThread]
    /\ nops = 0

NextNested ==
    \/ SaveCall
    \/ RestoreCall
    \/ TranslateCall
    \/ ClipRectCall
    \/ DrawRectCall
    \/ DrawDisplayListCall
    \/ Finish
    \/ GetDisplayListNew

SpecNested == InitNested /\ [][NextNested]_vars

\* replay(renderer, dirty, flags, level) of list d from byte offset cur on
\* an executor with snapshots snaps, nested replays included: the snapshots
\* it leaves and the state-changing calls it makes, each with its level
RECURSIVE ReplayFrom(_, _, _, _, _, _)
ReplayFrom(d, cur, flags, saveCount, level, snaps) ==
    LET L == [lists[d] EXCEPT !.cur = cur]
    IN IF ReaderEof(L) THEN [snaps |-> snaps, calls |-> <<>>]
       ELSE LET it == ReplayIteration(L, flags, saveCount, level, 0)
                s2 == ExecApply(snaps, it.call)
                nested == it.call.m = "drawDisplayList" /\ it.call.a[1] \in ListIds
                sub == IF nested
                       THEN ReplayFrom(it.call.a[1], 0, it.call.a[4], Len(s2) - 1,
                                       level + 1, s2)
                       ELSE [snaps |-> s2, calls |-> <<>>]
                rest == ReplayFrom(d, it.cur, flags, saveCount, level, sub.snaps)
                own == IF it.call.m \in StateMethods
                       THEN <<[m |-> it.call.m, a |-> it.call.a, lvl |-> level]>>
                       ELSE <<>>
            IN [snaps |-> rest.snaps, calls |-> own \o sub.calls \o rest.calls]

Culled(d) == ReplayFrom(d, 0, kReplayFlag_ClipChildren, 0, 0, <<FirstSnapshot>>)
Unculled(d) == ReplayFrom(d, 0, 0, 0, 0, <<FirstSnapshot>>)

DrawOps == {DrawDisplayList, DrawBitmap, DrawRect, DrawPath}
\* the tagged operations of list d are draw operations
OnlyDrawsTagged(d) ==
    \A b \in Range(Walk(lists[d], 0, 0)) :
        TaggedAt(lists[d], b) => StripSkipTag(WordAt(lists[d], b, 0)) \in DrawOps
\* the lists that tagged DrawDisplayList operations of list d draw
TaggedKids(d) ==
    {WordAt(lists[d], b + 8, 0) :
        b \in {c \in Range(Walk(lists[d], 0, 0)) :
                  /\ TaggedAt(lists[d], c)
                  /\ StripSkipTag(WordAt(lists[d], c, 0)) = DrawDisplayList}}
\* a replay of list k leaves the executor's state as it found it
LeavesState(k) == ExecState(Unculled(k).snaps) = ExecState(<<FirstSnapshot>>)
\* the calls of level 0
RECURSIVE OwnStateCalls(_)
OwnStateCalls(calls) ==
    IF calls = <<>> THEN <<>>
    ELSE IF Head(calls).lvl = 0
         THEN <<Head(calls)>> \o OwnStateCalls(Tail(calls))
         ELSE OwnStateCalls(Tail(calls))

IsLeftAlign(paint) == paint = 2
\* paint->getFontMetrics: the text lies between y + fTop and y + fBottom
FontMetrics == [fTop |-> -1, fBottom |-> 1]
\* drawText inputs: the words of the text, the glyph count, x, y, length
TextInputs ==
    {[text |-> <<7>>, count |-> 1, x |-> 0, y |-> 1, length |-> 2],
     [text |-> <<7>>, count |-> 0, x |-> 0, y |-> 1, length |-> 2]}
RoundRectInputs == {<<0, 0, 2, 2, 1, 1>>}

addWords(r, ws) == [r EXCEPT !.w = @ \o ws]
\* addText: the byte count and the bytes
addText(r, text) == addWords(r, <<Len(text)>> \o text)

Recorder_drawRoundRect(r, rc, paint) ==
    LET reject == IsFillStyle(paint) /\ quickReject(r.snaps, rc[1], rc[2], rc[3], rc[4])
        r1 == addOpReject(r, DrawRoundRect, reject)
        location == SkipLocation(r1, reject)
    IN addSkip(addPaint(addPoint(addBounds(r1, rc[1], rc[2], rc[3], rc[4]), rc[5], rc[6]),
                        paint), location)

Recorder_drawText(r, t, paint) ==
    IF t.count <= 0 THEN r
    ELSE LET reject == IF IsLeftAlign(paint)
                       THEN quickReject(r.snaps, t.x, t.y + FontMetrics.fTop,
                                        t.x + t.length, t.y + FontMetrics.fBottom)
                       ELSE FALSE
             r1 == addOpReject(r, DrawText, reject)
             location == SkipLocation(r1, reject)
         IN addSkip(addInt(addPaint(addPoint(addInt(addText(r1, t.text), t.count),
                                             t.x, t.y), paint), t.length), location)

\* the entry points that call addOp(op) and make no rejection test: the
\* opcode and the operands each writes, for shapes at (0, 0)-(2, 2)
UntestedDraws ==
    {[m |-> "drawLayer", op |-> DrawLayer, count |-> 1, a |-> <<1, 0, 0, 1>>],
     [m |-> "drawBitmapMesh", op |-> DrawBitmapMesh, count |-> 1,
      a |-> <<1, 1, 1, 8, 0, 0, 2, 0, 0, 2, 2, 2, 0, 1>>],
     [m |-> "drawColor", op |-> DrawColor, count |-> 1, a |-> <<0, 1>>],
     [m |-> "drawCircle", op |-> DrawCircle, count |-> 1, a |-> <<1, 1, 1, 1>>],
     [m |-> "drawOval", op |-> DrawOval, count |-> 1, a |-> <<0, 0, 2, 2, 1>>],
     [m |-> "drawArc", op |-> DrawArc, count |-> 1, a |-> <<0, 0, 2, 2, 0, 90, 1, 1>>],
     [m |-> "drawLines", op |-> DrawLines, count |-> 1, a |-> <<4, 0, 0, 2, 2, 1>>],
     [m |-> "drawPoints", op |-> DrawPoints, count |-> 1, a |-> <<2, 1, 1, 1>>],
     [m |-> "drawTextOnPath", op |-> DrawTextOnPath, count |-> 1, a |-> <<1, 7, 1, 1, 0, 0, 1>>],
     [m |-> "drawTextOnPath", op |-> DrawTextOnPath, count |-> 0, a |-> <<1, 7, 0, 1, 0, 0, 1>>],
     [m |-> "drawPosText", op |-> DrawPosText, count |-> 1, a |-> <<1, 7, 1, 2, 0, 1, 1>>],
     [m |-> "drawPosText", op |-> DrawPosText, count |-> 0, a |-> <<1, 7, 0, 0, 1>>]}
UntestedMethods == {c.m : c \in UntestedDraws}

\* drawTextOnPath and drawPosText return at once for a count of 0;
\* drawBitmapMesh writes its bitmap with addBitmap
Recorder_drawUntested(r, c) ==
    IF c.count <= 0 THEN r
    ELSE IF c.m = "drawBitmapMesh"
         THEN addWords(addBitmap(addOp(r, c.op), c.a[1]), Tail(c.a))
         ELSE addWords(addOp(r, c.op), c.a)

DrawRoundRectCall ==
    \E rc \in RoundRectInputs, paint \in Paints :
        /\ Record(Recorder_drawRoundRect(rec, rc, paint),
                  [m |-> "drawRoundRect", a |-> rc \o <<paint>>])
        /\ UNCHANGED cache

DrawTextCall ==
    \E t \in TextInputs, paint \in Paints :
        /\ Record(Recorder_drawText(rec, t, paint),
                  [m |-> "drawText", a |-> <<t.count, t.x, t.y, t.length, paint>>])
        /\ UNCHANGED cache

UntestedDrawCall ==
    \E c \in UntestedDraws :
        /\ Record(Recorder_drawUntested(rec, c), [m |-> c.m, a |-> c.a])
        /\ cache' = IF c.m = "drawBitmapMesh" /\ c.count > 0
                    THEN incrementRefcounts(cache, <<c.a[1]>>)
                    ELSE cache

NextTag ==
    \/ ClipRectCall
    \/ DrawRectCall
    \/ DrawRoundRectCall
    \/ DrawTextCall
    \/ UntestedDrawCall

SpecTag == Init /\ [][NextTag]_vars

\* the step's call wrote its opcode tagged skippable (in SpecTag nothing
\* is pending, so the opcode is the first word a call writes)
WroteTagged == Written # <<>> /\ MayBeSkipped(Written[1])
CallPaint(c) == c.a[Len(c.a)]

\* C27: a drawRect or drawRoundRect with a paint that is not fill-style is
\* never tagged skippable; a drawText is tagged only if its paint is
\* left-aligned; drawCircle, drawOval, drawArc, drawLines, drawPoints,
\* drawBitmapMesh, drawTextOnPath, drawPosText, drawLayer and drawColor are
\* never tagged.
C27_Step ==
    RecordsCall =>
        /\ (RecordedCall.m \in {"drawRect", "drawRoundRect"}
                /\ ~IsFillStyle(CallPaint(RecordedCall))) => ~WroteTagged
        /\ (RecordedCall.m = "drawText" /\ ~IsLeftAlign(CallPaint(RecordedCall)))
               => ~WroteTagged
        /\ RecordedCall.m \in UntestedMethods => ~WroteTagged
C27_TaggedOnlyWhenTested == [][C27_Step]_vars

\* after clipRect(2, 2, 6, 6): a drawRect of (0, 0, 2, 2) with a stroke
\* paint was written untagged, and a left-aligned drawText next to it
\* was written tagged
C27_Witness ==
    /\ Len(session.calls) = 3
    /\ session.calls[1].m = "clipRect"
    /\ session.calls[2] = [m |-> "drawRect", a |-> <<0, 0, 2, 2, 2>>]
    /\ session.calls[3].m = "drawText"
    /\ IsLeftAlign(CallPaint(session.calls[3]))
    /\ Len(rec.w) >= 13
    /\ rec.w[7] = DrawRect
    /\ rec.w[13] = OP_MAY_BE_SKIPPED_MASK + DrawText

(***************************************************************************)
(* SpecOwned: the resource collections.  In this specification             *)
(*   rec    is [w, paints, paintMap, paths, pathMap, bitmaps]: the writer, *)
(*          mPaints, mPaintMap, mPaths, mPathMap and mBitmapResources;     *)
(*   cache  is [heap, refs]: heap[o] is the number of times the paint or   *)
(*          path copy o was deleted (MaxDeletes stands for any larger      *)
(*          number), refs the count of references per bitmap;              *)
(*   lists  maps a list to [alive, buf, paints, paths, bitmaps, src].      *)
(* Sessions of drawPath and drawBitmap calls are finished and made lists,  *)
(* any number of times; lists are destroyed; the recorder is reset.        *)
(***************************************************************************)
MaxOwnedOps == 3
MaxDeletes == 2

OwnedRecorder ==
    [w |-> <<>>, paints |-> <<>>, paintMap |-> {}, paths |-> <<>>, pathMap |-> {},
     bitmaps |-> <<>>]
OwnedNoList ==
    [alive |-> FALSE, buf |-> <<>>, paints |-> <<>>, paths |-> <<>>, bitmaps |-> <<>>,
     src |-> <<>>]

\* KeyedVector::valueFor: the copy kept for a key, 0 (NULL) if there is none
valueFor(map, key) ==
    IF \E p \in map : p[1] = key
    THEN (CHOOSE p \in map : p[1] = key)[2]
    ELSE 0

\* addPaint: the paint is written by the pointer of its copy; the copy is
\* made, and entered in mPaints and mPaintMap, the first time the paint is
\* seen in the session.  x is [r, c], the recorder and the cache.
Owned_addPaint(x, paint) ==
    LET copy == valueFor(x.r.paintMap, paint)
        new == Len(x.c.heap) + 1
    IN IF copy # 0
       THEN [x EXCEPT !.r.w = Append(@, copy)]
       ELSE [x EXCEPT !.r.w = Append(@, new),
                      !.r.paintMap = @ \cup {<<paint, new>>},
                      !.r.paints = Append(@, new),
                      !.c.heap = Append(@, 0)]

\* addPath: as addPaint, with mPaths and mPathMap
Owned_addPath(x, path) ==
    LET copy == valueFor(x.r.pathMap, path)
        new == Len(x.c.heap) + 1
    IN IF copy # 0
       THEN [x EXCEPT !.r.w = Append(@, copy)]
       ELSE [x EXCEPT !.r.w = Append(@, new),
                      !.r.pathMap = @ \cup {<<path, new>>},
                      !.r.paths = Append(@, new),
                      !.c.heap = Append(@, 0)]

\* addBitmap: the pointer is written and entered in mBitmapResources, and
\* a reference is taken, at every call
Owned_addBitmap(x, bitmap) ==
    [x EXCEPT !.r.w = Append(@, bitmap),
              !.r.bitmaps = Append(@, bitmap),
              !.c.refs = incrementRefcounts(@, <<bitmap>>)]

Owned_addWords(x, ws) == [x EXCEPT !.r.w = @ \o ws]

\* drawPath and drawBitmap of shapes inside the clip (nothing is rejected)
Owned_drawPath(x, path, paint) ==
    Owned_addPaint(Owned_addPath(Owned_addWords(x, <<DrawPath>>), path), paint)
Owned_drawBitmap(x, bitmap, left, top, paint) ==
    Owned_addPaint(
        Owned_addWords(Owned_addBitmap(Owned_addWords(x, <<DrawBitmap>>), bitmap),
                       <<left, top>>),
        paint)

\* a reset() that leaves mPaintMap and mPathMap as they are
Owned_reset_keepsMaps(x) ==
    [x EXCEPT !.r.w = <<>>, !.r.bitmaps = <<>>, !.r.paints = <<>>, !.r.paths = <<>>,
              !.c.refs = decrementRefcounts(@, x.r.bitmaps)]

\* DisplayListRenderer::reset(): the writer, the vectors and the maps are
\* emptied, the bitmap references given back; no copy is deleted
Owned_reset(x) ==
    [x EXCEPT !.r = OwnedRecorder, !.c.refs = decrementRefcounts(@, x.r.bitmaps)]

\* delete of each copy in a vector
RECURSIVE DeleteAll(_, _)
DeleteAll(heap, objs) ==
    IF objs = <<>> THEN heap
    ELSE DeleteAll([heap EXCEPT ![Head(objs)] = Min(@ + 1, MaxDeletes)], Tail(objs))

\* DisplayList::clearResources on list L with cache c: [l, c]
Owned_clearResources(L, c) ==
    [l |-> [L EXCEPT !.buf = <<>>, !.bitmaps = <<>>, !.paints = <<>>, !.paths = <<>>],
     c |-> [refs |-> decrementRefcounts(c.refs, L.bitmaps),
            heap |-> DeleteAll(c.heap, L.paints \o L.paths)]]

\* DisplayList::initFromDisplayListRenderer(recorder, reusing): [l, c]
Owned_init(L, c, r, reusing) ==
    IF r.w = <<>> THEN [l |-> L, c |-> c]
    ELSE LET x == IF reusing THEN Owned_clearResources(L, c) ELSE [l |-> L, c |-> c]
         IN [l |-> [x.l EXCEPT !.buf = r.w,
                               !.bitmaps = @ \o r.bitmaps,
                               !.paints = @ \o r.paints,
                               !.paths = @ \o r.paths],
             c |-> [x.c EXCEPT !.refs = incrementRefcounts(@, r.bitmaps)]]

InitOwned ==
    /\ rec = OwnedRecorder
    /\ session = NewSession
    /\ lists = [d \in ListIds |-> OwnedNoList]
    /\ cache = [heap |-> <<>>, refs |-> [b \in Bitmaps |-> 0]]
    /\ threads = [t \in Threads |-> IdleThread]
    /\ nops = 0

OwnedRecord(x, call) ==
    /\ nops < MaxOwnedOps
    /\ ~session.finished
    /\ rec' = x.r
    /\ cache' = x.c
    /\ session' = [session EXCEPT !.calls = Append(@, call)]
    /\ nops' = nops + 1
    /\ UNCHANGED <<lists, threads>>

OwnedDrawPath ==
    \E path \in Paths, paint \in Paints :
        OwnedRecord(Owned_drawPath([r |-> rec, c |-> cache], path, paint),
                    [m |-> "drawPath", a |-> <<path, paint>>])

OwnedDrawBitmap ==
    \E bitmap \in Bitmaps, pos \in BitmapPosInputs, paint \in Paints :
        OwnedRecord(Owned_drawBitmap([r |-> rec, c |-> cache], bitmap, pos[1], pos[2], paint),
                    [m |-> "drawBitmap", a |-> <<bitmap, pos[1], pos[2], paint>>])

\* finish(): nothing is pending in these sessions
OwnedFinish ==
    /\ ~session.finished
    /\ session' = [session EXCEPT !.finished = TRUE]
    /\ UNCHANGED <<rec, lists, cache, threads, nops>>

OwnedReset ==
    /\ LET x == Owned_reset([r |-> rec, c |-> cache])
       IN rec' = x.r /\ cache' = x.c
    /\ session' = NewSession
    /\ UNCHANGED <<lists, threads, nops>>

\* getDisplayList(NULL) and getDisplayList(displayList), as often as the
\* caller likes
OwnedGetDisplayList ==
    /\ session.finished
    /\ \E d \in ListIds :
        LET x == Owned_init(lists[d], cache, rec, lists[d].alive)
        IN /\ lists' = [lists EXCEPT ![d] =
                  [x.l EXCEPT !.alive = TRUE,
                              !.src = IF rec.w = <<>> /\ lists[d].alive THEN @ ELSE session]]
           /\ cache' = x.c
    /\ UNCHANGED <<rec, session, threads, nops>>

\* delete displayList
OwnedDestroyList ==
    \E d \in ListIds :
        /\ lists[d].alive
        /\ LET x == Owned_clearResources(lists[d], cache)
           IN /\ lists' = [lists EXCEPT ![d] = [x.l EXCEPT !.alive = FALSE]]
              /\ cache' = x.c
        /\ UNCHANGED <<rec, session, threads, nops>>

NextOwned ==
    \/ OwnedDrawPath
    \/ OwnedDrawBitmap
    \/ OwnedFinish
    \/ OwnedReset
    \/ OwnedGetDisplayList
    \/ OwnedDestroyList

SpecOwned == InitOwned /\ [][NextOwned]_vars

\* the objects of each kind the calls of a session refer to
PaintsOf(calls) == {calls[i].a[Len(calls[i].a)] : i \in 1..Len(calls)}
PathsOf(calls) == {calls[i].a[1] : i \in {j \in 1..Len(calls) : calls[j].m = "drawPath"}}
BitmapsOf(calls) == {calls[i].a[1] : i \in {j \in 1..Len(calls) : calls[j].m = "drawBitmap"}}
BitmapUses(calls) == Cardinality({j \in 1..Len(calls) : calls[j].m = "drawBitmap"})
\* after reset() the recorder holds no entry and no map
ResetEmpties == session.calls = <<>> => rec = OwnedRecorder
FromSession(d) == lists[d].alive /\ lists[d].src # <<>> /\ lists[d].src.calls # <<>>

Copies == 1..Len(cache.heap)
HeldByList(d) == Range(lists[d].paints) \cup Range(lists[d].paths)
HeldByRecorder == Range(rec.paints) \cup Range(rec.paths)
Held == HeldByRecorder \cup UNION {HeldByList(d) : d \in {e \in ListIds : lists[e].alive}}

\* C29 as stated: every paint and path copy is destroyed exactly once, and
\* never while a live list holds its pointer: no copy is deleted twice, no
\* live list holds a deleted copy, and a copy that neither the recorder nor
\* a live list holds any more has been deleted; for any sequence of
\* getDisplayList(NULL), getDisplayList(list), reset() and destruction.
C29_OwnedDestroyedOnce ==
    /\ \A o \in Copies : cache.heap[o] <= 1
    /\ \A d \in ListIds : lists[d].alive => \A o \in HeldByList(d) : cache.heap[o] = 0
    /\ \A o \in Copies \ Held : cache.heap[o] = 1

\* one session was made two lists without a reset() between; one list was
\* destroyed and the other holds the copies it deleted
C29_Witness ==
    \E d, e \in ListIds :
        /\ d # e
        /\ ~lists[d].alive
        /\ lists[d].src = lists[e].src
        /\ lists[e].alive
        /\ lists[e].paths # <<>>
        /\ \A o \in HeldByList(e) : cache.heap[o] = 1

\* both lists of one session were destroyed: its copies were deleted twice
C29_WitnessTwice ==
    /\ \A d \in ListIds : ~lists[d].alive /\ lists[d].src # <<>>
    /\ lists[1].src = lists[2].src
    /\ \E o \in Copies : cache.heap[o] = MaxDeletes

(***************************************************************************)
(* SpecInvalidate: what replay returns.  A session records                 *)
(* callDrawGLFunction, clipRect and drawDisplayList calls; list 1 was made *)
(* earlier of callDrawGLFunction(functor 1).  The executor's               *)
(* callDrawGLFunction reports that another frame is needed for functor 1   *)
(* and not for functor 2; its drawDisplayList reports what the replay of   *)
(* the nested list returns.                                                *)
(***************************************************************************)
Functors == {1, 2}
FunctorInvalidates(functor) == functor = 1

\* DisplayListRenderer::callDrawGLFunction: the recorder and the value
\* returned
Recorder_callDrawGLFunction(r, functor) ==
    [r |-> addInt(addOp(r, DrawGLFunction), functor), ret |-> FALSE]

\* needsInvalidate = report
Accumulate_assign(needsInvalidate, report) == report
\* needsInvalidate |= report
Accumulate(needsInvalidate, report) == needsInvalidate \/ report

\* one iteration of the loop, with the case DrawGLFunction
InvIteration(L, flags, level) ==
    LET op0 == WordAt(L, L.cur, 0)
        tagged == MayBeSkipped(op0)
        c2 == IF tagged THEN L.cur + 8 ELSE L.cur + 4
        op == IF tagged THEN StripSkipTag(op0) ELSE op0
    IN IF op = DrawGLFunction /\ ~(tagged /\ ClipChildren(flags))
       THEN [cur |-> c2 + 4,
             call |-> [m |-> "callDrawGLFunction", a |-> <<WordAt(L, c2, 0)>>],
             jumped |-> FALSE, op |-> op0]
       ELSE ReplayIteration(L, flags, 0, level, 0)

\* replay of list d from offset cur with needsInvalidate so far: the value
\* returned, and for each iteration whether it jumped and what the call it
\* dispatched reported (<<>> if the call reports nothing)
RECURSIVE ReplayInvalidate(_, _, _, _, _)
ReplayInvalidate(d, cur, flags, level, needsInvalidate) ==
    LET L == [lists[d] EXCEPT !.cur = cur]
    IN IF ReaderEof(L) THEN [ret |-> needsInvalidate, trace |-> <<>>]
       ELSE LET it == InvIteration(L, flags, level)
                report ==
                    CASE it.call.m = "callDrawGLFunction" ->
                             <<FunctorInvalidates(it.call.a[1])>>
                      [] it.call.m = "drawDisplayList" /\ it.call.a[1] \in ListIds ->
                             <<ReplayInvalidate(it.call.a[1], 0, it.call.a[4],
                                                level + 1, FALSE).ret>>
                      [] OTHER -> <<>>
                acc == IF report = <<>> THEN needsInvalidate
                       ELSE Accumulate(needsInvalidate, report[1])
                rest == ReplayInvalidate(d, it.cur, flags, level, acc)
            IN [ret |-> rest.ret,
                trace |-> <<[jumped |-> it.jumped, report |-> report]>> \o rest.trace]

InvalidatingCalls == <<[m |-> "callDrawGLFunction", a |-> <<1>>, ret |-> FALSE]>>
InvalidatingList ==
    PrebuiltList(Recorder_finish(Recorder_callDrawGLFunction(NewRecorder, 1).r),
                 InvalidatingCalls)

InitInvalidate ==
    /\ rec = NewRecorder
    /\ session = NewSession
    /\ lists = [d \in ListIds |-> IF d = 1 THEN InvalidatingList ELSE NoList]
    /\ cache = [b \in Bitmaps |-> 0]
    /\ threads = [t \in Threads |-> IdleThread]
    /\ nops = 0

CallDrawGLFunctionCall ==
    \E functor \in Functors :
        LET x == Recorder_callDrawGLFunction(rec, functor)
        IN /\ Record(x.r, [m |-> "callDrawGLFunction", a |-> <<functor>>, ret |-> x.ret])
           /\ UNCHANGED cache

\* DisplayListRenderer::drawDisplayList ends with return false
Recorder_drawDisplayList_return == FALSE
RecordedDrawDisplayListCall ==
    \E d \in ListIds, sz \in ChildSizeInputs :
        /\ lists[d].alive
        /\ Record(Recorder_drawDisplayList(rec, d, sz[1], sz[2], kReplayFlag_ClipChildren),
                  [m |-> "drawDisplayList",
                   a |-> <<d, sz[1], sz[2], kReplayFlag_ClipChildren, 1>>,
                   ret |-> Recorder_drawDisplayList_return])
        /\ UNCHANGED cache

\* replay(renderer, dirty, flags, 0), from mReader.rewind() to its return
InvReplay ==
    \E d \in ListIds, flags \in {0, kReplayFlag_ClipChildren} :
        /\ lists[d].alive
        /\ LET x == ReplayInvalidate(d, 0, flags, 0, FALSE)
           IN threads' = [threads EXCEPT ![1] =
                  [status |-> "done", stack |-> <<>>, snaps |-> <<FirstSnapshot>>,
                   log |-> x.trace, top |-> [dl |-> d, flags |-> flags],
                   result |-> x.ret]]
        /\ UNCHANGED <<rec, session, lists, cache, nops>>

NextInvalidate ==
    \/ CallDrawGLFunctionCall
    \/ ClipRectCall
    \/ RecordedDrawDisplayListCall
    \/ Finish
    \/ GetDisplayListNew
    \/ InvReplay

SpecInvalidate == InitInvalidate /\ [][NextInvalidate]_vars

Returned(t) == threads[t].status = "done"
SomeReport(trace) == \E i \in 1..Len(trace) : trace[i].report = <<TRUE>>

\* C24: replay returns true exactly if one of the calls it dispatched
\* (callDrawGLFunction, drawDisplayList) reported that another frame is
\* needed; an operation jumped over by culling makes no call and reports
\* nothing; the recorder's callDrawGLFunction and drawDisplayList return
\* false.
C24_InvalidateIffReported ==
    /\ Returned(1) =>
           /\ threads[1].result = SomeReport(threads[1].log)
           /\ \A i \in 1..Len(threads[1].log) :
                  threads[1].log[i].jumped => threads[1].log[i].report = <<>>
    /\ \A i \in 1..Len(session.calls) :
           "ret" \in DOMAIN session.calls[i] => ~session.calls[i].ret

\* a culling replay of clipRect(2, 2, 6, 6); drawDisplayList(list 1);
\* callDrawGLFunction(functor 2): the nested list, whose functor would
\* have reported true, was jumped over, functor 2 reported false, and
\* replay returned false
C24_Witness ==
    /\ Returned(1)
    /\ threads[1].top = [dl |-> 2, flags |-> kReplayFlag_ClipChildren]
    /\ Len(threads[1].log) = 3
    /\ threads[1].log[2] = [jumped |-> TRUE, report |-> <<>>]
    /\ threads[1].log[3] = [jumped |-> FALSE, report |-> <<FALSE>>]
    /\ ~threads[1].result
    /\ ReplayInvalidate(2, 0, 0, 0, FALSE).ret

(***************************************************************************)
(* SpecDeferred: deferred destruction.  In this specification cache is     *)
(* [refs, garbage]: the count of references per bitmap and the queue of    *)
(* lists the cache is to delete.  List 1 was made of drawBitmap, list 2    *)
(* of drawRect; they are replayed, handed to destroyDisplayListDeferred,   *)
(* and deleted when the cache empties its queue.                           *)
(***************************************************************************)
MaxDeferredCalls == 3

BitmapCalls == <<[m |-> "drawBitmap", a |-> <<1, 0, 0, 1>>]>>
BitmapList ==
    PrebuiltList(Recorder_finish(Recorder_drawBitmap(NewRecorder, 1, 0, 0, 1)), BitmapCalls)

\* Caches::deleteDisplayListDeferred: the list is put on the queue
deleteDisplayListDeferred(c, displayList) ==
    [c EXCEPT !.garbage = Append(@, displayList)]

\* the queue is emptied: delete of each list on it
RECURSIVE clearGarbage(_, _, _)
clearGarbage(ls, refs, garbage) ==
    IF garbage = <<>> THEN [lists |-> ls, refs |-> refs]
    ELSE LET d == Head(garbage)
             x == clearResources(ls[d], refs)
         IN clearGarbage([ls EXCEPT ![d] = [x.l EXCEPT !.alive = FALSE]], x.c, Tail(garbage))

\* a destroyDisplayListDeferred that deletes the list at once
destroyDisplayListDeferred_now(ls, c, displayList) ==
    IF displayList # NullList
    THEN LET x == clearGarbage(ls, c.refs, <<displayList>>)
         IN [lists |-> x.lists, c |-> [c EXCEPT !.refs = x.refs]]
    ELSE [lists |-> ls, c |-> c]

\* DisplayList::destroyDisplayListDeferred: the lists and the cache after it
destroyDisplayListDeferred(ls, c, displayList) ==
    IF displayList # NullList
    THEN [lists |-> ls, c |-> deleteDisplayListDeferred(c, displayList)]
    ELSE [lists |-> ls, c |-> c]

InitDeferred ==
    /\ rec = NewRecorder
    /\ session = NewSession
    /\ lists = [d \in ListIds |-> IF d = 1 THEN BitmapList ELSE ChildList]
    /\ cache = [refs |-> [b \in Bitmaps |-> 1], garbage |-> <<>>]
    /\ threads = [t \in Threads |-> IdleThread]
    /\ nops = 0

\* a caller hands a list it owns, or NULL, to destroyDisplayListDeferred,
\* each list once; a replay may be running
DestroyDeferredCall ==
    /\ nops < MaxDeferredCalls
    /\ \E d \in ListIds \cup {NullList} :
        /\ d # NullList => lists[d].alive /\ d \notin Range(cache.garbage)
        /\ LET x == destroyDisplayListDeferred(lists, cache, d)
           IN lists' = x.lists /\ cache' = x.c
        /\ session' = [session EXCEPT
               !.calls = Append(@, [m |-> "destroyDisplayListDeferred", a |-> <<d>>])]
    /\ nops' = nops + 1
    /\ UNCHANGED <<rec, threads>>

\* the cache empties its queue, at a point where no replay is running
ClearGarbage ==
    /\ Quiet
    /\ cache.garbage # <<>>
    /\ LET x == clearGarbage(lists, cache.refs, cache.garbage)
       IN lists' = x.lists /\ cache' = [refs |-> x.refs, garbage |-> <<>>]
    /\ UNCHANGED <<rec, session, threads, nops>>

NextDeferred ==
    \/ DestroyDeferredCall
    \/ ClearGarbage
    \/ Quiet /\ StartReplay(1)
    \/ ReplayStep(1)
    \/ ReplayReturn(1)

SpecDeferred == InitDeferred /\ [][NextDeferred]_vars

Intact(d) == lists[d].alive /\ lists[d].hasMem /\ ~lists[d].freed
\* a step that is a call of destroyDisplayListDeferred changes nothing but
\* the queue, which gets the list if it is not NULL
C25_Step ==
    RecordsCall =>
        /\ lists' = lists
        /\ threads' = threads
        /\ cache'.refs = cache.refs
        /\ cache'.garbage = IF RecordedCall.a[1] # NullList
                            THEN Append(cache.garbage, RecordedCall.a[1])
                            ELSE cache.garbage
\* a queued list is alive, with its buffer and its references, and so is
\* the list a running replay reads
C25_QueuedIntact ==
    /\ \A d \in Range(cache.garbage) :
           /\ Intact(d)
           /\ \A b \in Range(lists[d].bitmaps) : cache.refs[b] >= 1
    /\ \A t \in Threads :
           threads[t].status = "run" =>
               \A i \in 1..Len(threads[t].stack) : Intact(threads[t].stack[i].dl)

\* C25: destroyDisplayListDeferred(list) never destroys the list itself:
\* for a list that is not NULL it only puts the list on the cache's queue,
\* and the list keeps its buffer and its references, and a replay of it
\* that is running goes on, until the cache empties the queue; for NULL it
\* does nothing.
C25_NeverSynchronous == [](C25_QueuedIntact) /\ [][C25_Step]_vars

\* list 1 was handed to destroyDisplayListDeferred while, or before, a
\* replay of it ran: the replay has made its drawBitmap call
C25_Witness ==
    /\ cache.garbage = <<1>>
    /\ threads[1].status = "run"
    /\ threads[1].top.dl = 1
    /\ Len(threads[1].log) = 1
    /\ threads[1].log[1].m = "drawBitmap"
    /\ cache.refs[1] = 1

(***************************************************************************)
(* C31                                                                     *)
(***************************************************************************)
\* the indexes at which the iterations of replay, run without
\* kReplayFlag_ClipChildren from index p, read an opcode, and then the
\* index at which the loop ends
RECURSIVE ReplayBoundaries(_, _)
ReplayBoundaries(buf, p) ==
    IF p > Len(buf) THEN <<p>>
    ELSE LET o == ReadOp(buf, p)
             d == ReadFields(ReplayFields(o.op), buf, o.next)
         IN <<p>> \o ReplayBoundaries(buf, d.next)

\* the same for the iterations of output
RECURSIVE OutputBoundaries(_, _)
OutputBoundaries(buf, p) ==
    IF p > Len(buf) THEN <<p>>
    ELSE LET o == ReadOp(buf, p)
             d == ReadFields(OutputFields(o.op), buf, o.next)
         IN <<p>> \o OutputBoundaries(buf, d.next)

\* C31: for each of the 40 opcodes output makes the reads replay makes, so
\* on a list made by the recorder a pass of output reads an opcode at the
\* indexes a replay without culling does, one per recorded call, and ends
\* at the end of the buffer.
C31_OutputReadsAsReplay ==
    /\ \A op \in 0..(OpCount - 1) : OutputFields(op) = ReplayFields(op)
    /\ lists[1].alive =>
           LET b == OutputBoundaries(lists[1].buf, 1)
           IN /\ b = ReplayBoundaries(lists[1].buf, 1)
              /\ b = [k \in 1..(Len(session.calls) + 1) |-> EndOfCall(k - 1) + 1]
              /\ b[Len(b)] = Len(lists[1].buf) + 1
    /\ threads[2].status = "run" =>
           \E k \in 0..Len(session.calls) : lists[1].cur = 4 * EndOfCall(k)
    /\ threads[2].status = "done" /\ threads[1].status # "run" =>
           lists[1].cur = 4 * Len(lists[1].buf)

\* output has described a list of a tagged drawText of five bytes and a
\* drawPosText and stands at the end of the buffer
C31_Witness ==
    /\ threads[2].status = "done"
    /\ Len(session.calls) = 2
    /\ session.calls[1].op = DrawText
    /\ Len(session.calls[1].vals[1].v) = 5
    /\ MayBeSkipped(AsInt(lists[1].buf[1]))
    /\ session.calls[2].op = DrawPosText
    /\ lists[1].cur = 4 * Len(lists[1].buf)
    /\ Len(OutputBoundaries(lists[1].buf, 1)) = 3

(***************************************************************************)
(* SensorService (services/sensorservice/SensorService.cpp).               *)
(* SpecSensor: connections are created, enable and disable sensors, set    *)
(* event rates and are destroyed; the device's activate may fail.  In this *)
(* specification cache is the service (mActiveSensors: handle -> the       *)
(* connections of its SensorRecord, mActiveConnections, mLastEventSeen),   *)
(* lists are the SensorEventConnections (alive, mSensorInfo: handle ->     *)
(* period, wrote: the last block written to the channel), rec is the       *)
(* device (active and delay per handle) and session holds the last call    *)
(* with its result and whether an activate has failed.  Periods are in     *)
(* milliseconds.                                                           *)
(***************************************************************************)
Connections == {1, 2}
Handles == {1, 2}
NO_ERROR == 0
BAD_VALUE == 0 - 22
NAME_NOT_FOUND == 0 - 2
ActivateError == 0 - 1
MINIMUM_EVENTS_PERIOD == 10
DEFAULT_EVENTS_PERIOD == 200
WantedMax == 1000
PeriodInputs == {0 - 1, 5, 2000}
ZeroEvent == [version |-> 0, sensor |-> 0, data |-> 0]
SensorEvent(h, x) == [version |-> 1, sensor |-> h, data |-> x]

\* KeyedVector: a function of its keys; the index of a key is its rank
indexOfKey(kv, k) ==
    IF k \in DOMAIN kv THEN Cardinality({j \in DOMAIN kv : j < k}) ELSE NAME_NOT_FOUND
KeyedVector_add(kv, k, v) == [j \in DOMAIN kv \cup {k} |-> IF j = k THEN v ELSE kv[j]]
KeyedVector_removeItem(kv, k) == [j \in DOMAIN kv \ {k} |-> kv[j]]
EmptyVector == [j \in {} |-> 0]

\* SensorRecord::addConnection and removeConnection: the connections of
\* the record after the call and the value returned
SensorRecord_addConnection(mConnections, c) ==
    [mConnections |-> mConnections \cup {c}, ret |-> c \notin mConnections]
\* a removeConnection that never reports the record empty
SensorRecord_removeConnection_neverEmpty(mConnections, c) ==
    [mConnections |-> mConnections \ {c}, ret |-> FALSE]
SensorRecord_removeConnection(mConnections, c) ==
    [mConnections |-> mConnections \ {c}, ret |-> mConnections \ {c} = {}]

\* SensorEventConnection::addSensor: the test is  indexOfKey(handle) <= 0
addSensor(mSensorInfo, handle) ==
    IF indexOfKey(mSensorInfo, handle) <= 0
    THEN [mSensorInfo |-> KeyedVector_add(mSensorInfo, handle, DEFAULT_EVENTS_PERIOD),
          ret |-> TRUE]
    ELSE [mSensorInfo |-> mSensorInfo, ret |-> FALSE]

removeSensor(mSensorInfo, handle) == KeyedVector_removeItem(mSensorInfo, handle)
hasSensor(mSensorInfo, handle) == indexOfKey(mSensorInfo, handle) >= 0
hasAnySensor(mSensorInfo) == DOMAIN mSensorInfo # {}

setEventRateLocked(mSensorInfo, handle, ns) ==
    LET index == indexOfKey(mSensorInfo, handle)
    IN IF index >= 0
       THEN [mSensorInfo |-> [mSensorInfo EXCEPT ![handle] = ns], ret |-> NO_ERROR]
       ELSE [mSensorInfo |-> mSensorInfo, ret |-> index]

\* the period of the connection for the sensor, 0 when it has none
getEventRateForSensor(mSensorInfo, handle) ==
    IF handle \in DOMAIN mSensorInfo THEN mSensorInfo[handle] ELSE 0

SetMin(S) == CHOOSE x \in S : \A y \in S : x <= y

\* the delay recomputeEventsPeriodLocked sets on the device
WantedPeriod(svc, conns, handle) ==
    SetMin({WantedMax} \cup
           ({getEventRateForSensor(conns[c].mSensorInfo, handle) :
                 c \in {a \in svc.mActiveConnections : conns[a].alive}} \ {0}))

\* recomputeEventsPeriodLocked: the device after setDelay
recomputeEventsPeriodLocked(svc, conns, dev, handle) ==
    [dev EXCEPT !.delay[handle] = WantedPeriod(svc, conns, handle)]

\* the device's activate(handle, enabled): ok is whether it succeeds
Device_activate(dev, handle, enabled, ok) ==
    IF ok THEN [dev EXCEPT !.active[handle] = enabled] ELSE dev

\* sendEvents(buffer, numEvents) without scratch: the buffer is written
SendUnfiltered(conn, events) ==
    IF Len(events) = 0 THEN conn ELSE [conn EXCEPT !.wrote = events]

\* SensorService::enable
SensorService_enable(svc, conns, dev, c, handle, ok) ==
    LET fresh == handle \notin DOMAIN svc.mActiveSensors
        a == SensorRecord_addConnection(
                 IF fresh THEN {} ELSE svc.mActiveSensors[handle], c)
        svc1 == [svc EXCEPT !.mActiveSensors = KeyedVector_add(@, handle, a.mConnections)]
        err == IF fresh /\ ~ok THEN ActivateError ELSE NO_ERROR
        dev1 == IF fresh THEN Device_activate(dev, handle, TRUE, ok) ELSE dev
        event == svc.mLastEventSeen[handle]
        conns1 == IF ~fresh /\ a.ret /\ event.version = 1
                  THEN [conns EXCEPT ![c] = SendUnfiltered(@, <<event>>)]
                  ELSE conns
        s == addSensor(conns1[c].mSensorInfo, handle)
        conns2 == [conns1 EXCEPT ![c].mSensorInfo = s.mSensorInfo]
        svc2 == [svc1 EXCEPT !.mActiveConnections = @ \cup {c}]
    IN IF err # NO_ERROR
       THEN [svc |-> svc1, conns |-> conns1, dev |-> dev1, ret |-> err,
             activated |-> fresh, hwFailed |-> TRUE]
       ELSE IF s.ret
       THEN [svc |-> svc2, conns |-> conns2,
             dev |-> recomputeEventsPeriodLocked(svc2, conns2, dev1, handle),
             ret |-> err, activated |-> fresh, hwFailed |-> FALSE]
       ELSE [svc |-> svc1, conns |-> conns2, dev |-> dev1, ret |-> err,
             activated |-> fresh, hwFailed |-> FALSE]

\* SensorService::disable
SensorService_disable(svc, conns, dev, c, handle, ok) ==
    IF handle \in DOMAIN svc.mActiveSensors
    THEN LET info == removeSensor(conns[c].mSensorInfo, handle)
             conns1 == [conns EXCEPT ![c].mSensorInfo = info]
             svc1 == IF hasAnySensor(info) THEN svc
                     ELSE [svc EXCEPT !.mActiveConnections = @ \ {c}]
             r == SensorRecord_removeConnection(svc.mActiveSensors[handle], c)
             svc2 == IF r.ret
                     THEN [svc1 EXCEPT !.mActiveSensors = KeyedVector_removeItem(@, handle)]
                     ELSE [svc1 EXCEPT !.mActiveSensors[handle] = r.mConnections]
             dev1 == IF r.ret THEN Device_activate(dev, handle, FALSE, ok) ELSE dev
             err == IF r.ret /\ ~ok THEN ActivateError ELSE NO_ERROR
         IN [svc |-> svc2, conns |-> conns1,
             dev |-> IF err = NO_ERROR
                     THEN recomputeEventsPeriodLocked(svc2, conns1, dev1, handle)
                     ELSE dev1,
             ret |-> err, activated |-> FALSE, hwFailed |-> err # NO_ERROR]
    ELSE [svc |-> svc, conns |-> conns,
          dev |-> recomputeEventsPeriodLocked(svc, conns, dev, handle),
          ret |-> NO_ERROR, activated |-> FALSE, hwFailed |-> FALSE]

\* SensorService::setEventRate
SensorService_setEventRate(svc, conns, dev, c, handle, ns) ==
    IF ns < 0
    THEN [svc |-> svc, conns |-> conns, dev |-> dev, ret |-> BAD_VALUE,
          activated |-> FALSE, hwFailed |-> FALSE]
    ELSE LET ns1 == IF ns < MINIMUM_EVENTS_PERIOD THEN MINIMUM_EVENTS_PERIOD ELSE ns
             e == setEventRateLocked(conns[c].mSensorInfo, handle, ns1)
             conns1 == [conns EXCEPT ![c].mSensorInfo = e.mSensorInfo]
         IN [svc |-> svc, conns |-> conns1,
             dev |-> IF e.ret = NO_ERROR
                     THEN recomputeEventsPeriodLocked(svc, conns1, dev, handle)
                     ELSE dev,
             ret |-> e.ret, activated |-> FALSE, hwFailed |-> FALSE]

\* SensorService::cleanupConnection, called by the connection's destructor:
\* the loop over mActiveSensors, then the connection leaves
\* mActiveConnections; oks are the handles whose activate(handle, 0) succeeds
SensorService_cleanupConnection(svc, conns, dev, c, oks) ==
    LET r(h) == SensorRecord_removeConnection(svc.mActiveSensors[h], c)
        emptied == {h \in DOMAIN svc.mActiveSensors : r(h).ret}
        kept == DOMAIN svc.mActiveSensors \ emptied
    IN [svc |-> [svc EXCEPT
                    !.mActiveSensors = [h \in kept |-> r(h).mConnections],
                    !.mActiveConnections = @ \ {c}],
        conns |-> [conns EXCEPT ![c] = [alive |-> FALSE, mSensorInfo |-> EmptyVector,
                                        wrote |-> <<>>]],
        dev |-> [dev EXCEPT !.active = [h \in Handles |->
                    IF h \in emptied \cap oks THEN FALSE ELSE dev.active[h]]],
        ret |-> NO_ERROR, activated |-> FALSE, hwFailed |-> emptied \ oks # {}]

LastEvents == [Handles -> {ZeroEvent}] \cup {[h \in Handles |-> SensorEvent(h, 1)]}

InitSensor ==
    /\ cache \in [mActiveSensors : {EmptyVector}, mActiveConnections : {{}},
                  mLastEventSeen : LastEvents]
    /\ lists = [c \in Connections |->
                   [alive |-> FALSE, mSensorInfo |-> EmptyVector, wrote |-> <<>>]]
    /\ rec = [active |-> [h \in Handles |-> FALSE], delay |-> [h \in Handles |-> 0]]
    /\ session = [calls |-> <<>>, failed |-> FALSE]
    /\ threads = <<>>
    /\ nops = 0

\* the state after a call, and the call with its result as the last call
SensorCall(x, m, c, handle) ==
    /\ cache' = x.svc
    /\ lists' = x.conns
    /\ rec' = x.dev
    /\ session' = [calls |-> <<[m |-> m, c |-> c, handle |-> handle,
                                ret |-> x.ret, activated |-> x.activated]>>,
                   failed |-> session.failed \/ x.hwFailed]
    /\ UNCHANGED <<threads, nops>>

\* createSensorEventConnection
CreateConnection ==
    /\ \E c \in Connections :
        /\ ~lists[c].alive
        /\ lists' = [lists EXCEPT ![c].alive = TRUE]
    /\ UNCHANGED <<rec, session, cache, threads, nops>>

EnableCall ==
    \E c \in Connections, h \in Handles, ok \in BOOLEAN :
        /\ lists[c].alive
        /\ SensorCall(SensorService_enable(cache, lists, rec, c, h, ok), "enable", c, h)

DisableCall ==
    \E c \in Connections, h \in Handles, ok \in BOOLEAN :
        /\ lists[c].alive
        /\ SensorCall(SensorService_disable(cache, lists, rec, c, h, ok), "disable", c, h)

SetEventRateCall ==
    \E c \in Connections, h \in Handles, ns \in PeriodInputs :
        /\ lists[c].alive
        /\ SensorCall(SensorService_setEventRate(cache, lists, rec, c, h, ns),
                      "setEventRate", c, h)

\* the last reference to a connection goes away: ~SensorEventConnection
DestroyConnection ==
    \E c \in Connections, oks \in SUBSET Handles :
        /\ lists[c].alive
        /\ SensorCall(SensorService_cleanupConnection(cache, lists, rec, c, oks),
                      "cleanupConnection", c, 0)

NextSensor ==
    \/ CreateConnection
    \/ EnableCall
    \/ DisableCall
    \/ SetEventRateCall
    \/ DestroyConnection

SpecSensor == InitSensor /\ [][NextSensor]_vars

(***************************************************************************)
(* C32                                                                     *)
(***************************************************************************)
SensorSet(c) == DOMAIN lists[c].mSensorInfo
\* C32: as long as every activate has succeeded, (1) a connection is in the
\* SensorRecord of a handle iff the handle is in the connection's sensors,
\* (2) a handle is a key of mActiveSensors iff its record holds a
\* connection, which is also when the device has the sensor active, and
\* (3) a connection is in mActiveConnections iff it has a sensor enabled.
C32_Membership ==
    ~session.failed =>
        /\ \A c \in Connections, h \in Handles :
               (h \in DOMAIN cache.mActiveSensors /\ c \in cache.mActiveSensors[h])
                   <=> h \in SensorSet(c)
        /\ \A h \in DOMAIN cache.mActiveSensors : cache.mActiveSensors[h] # {}
        /\ \A h \in Handles :
               /\ h \in DOMAIN cache.mActiveSensors <=> \E c \in Connections : h \in SensorSet(c)
               /\ rec.active[h] <=> h \in DOMAIN cache.mActiveSensors
        /\ \A c \in Connections :
               c \in cache.mActiveConnections <=> SensorSet(c) # {}
        /\ \A c \in Connections : ~lists[c].alive => SensorSet(c) = {}

\* two connections had sensor 2 enabled; one of them was destroyed and the
\* sensor is still active for the other, which has both sensors
C32_Witness ==
    /\ ~session.failed
    /\ session.calls # <<>>
    /\ session.calls[1].m = "cleanupConnection"
    /\ session.calls[1].c = 2
    /\ cache.mActiveSensors = [h \in Handles |-> {1}]
    /\ cache.mActiveConnections = {1}
    /\ rec.active[2]

(***************************************************************************)
(* C33                                                                     *)
(***************************************************************************)
EnableFails ==
    /\ session'.calls # <<>>
    /\ session'.calls[1].m = "enable"
    /\ session'.calls[1].ret # NO_ERROR
    /\ ~session.failed
\* C33: an enable that fails because activate returns an error returns the
\* error and leaves the service as it was: the handle is not a key of
\* mActiveSensors, the connection is in no SensorRecord and not added to
\* mActiveConnections; so the enable of that handle that follows has
\* activate called again.
C33_Step ==
    /\ EnableFails =>
           /\ cache' = cache
           /\ session'.calls[1].handle \notin DOMAIN cache'.mActiveSensors
    /\ (/\ session.calls # <<>>
        /\ session.calls[1].m = "enable"
        /\ session.calls[1].ret # NO_ERROR
        /\ session'.calls # session.calls
        /\ session'.calls[1].m = "enable"
        /\ session'.calls[1].handle = session.calls[1].handle)
           => session'.calls[1].activated
C33_FailedEnableUndone == [][C33_Step]_vars

\* activate failed in the first enable of sensor 1: the call returned the
\* error, and sensor 1 is a key of mActiveSensors with the connection in
\* its record, while the device has it inactive and the connection has no
\* sensor
C33_Witness ==
    /\ session.calls # <<>>
    /\ session.calls[1] = [m |-> "enable", c |-> 1, handle |-> 1,
                           ret |-> ActivateError, activated |-> TRUE]
    /\ 1 \in DOMAIN cache.mActiveSensors
    /\ cache.mActiveSensors[1] = {1}
    /\ ~rec.active[1]
    /\ DOMAIN lists[1].mSensorInfo = {}
    /\ cache.mActiveConnections = {}

(***************************************************************************)
(* C35                                                                     *)
(***************************************************************************)
\* the last call was an enable, disable or setEventRate that returned
\* NO_ERROR, and no activate has failed
RateCallSucceeded ==
    /\ ~session.failed
    /\ session.calls # <<>>
    /\ session.calls[1].m \in {"enable", "disable", "setEventRate"}
    /\ session.calls[1].ret = NO_ERROR
DelayIsWanted ==
    RateCallSucceeded =>
        rec.delay[session.calls[1].handle] =
            WantedPeriod(cache, lists, session.calls[1].handle)
BadValueChangesNothing ==
    (/\ session' # session
     /\ session'.calls[1].ret = BAD_VALUE) => <<cache, lists, rec>>' = <<cache, lists, rec>>
StoredAtLeastMinimum ==
    \A c \in Connections : \A h \in DOMAIN lists[c].mSensorInfo :
        lists[c].mSensorInfo[h] >= MINIMUM_EVENTS_PERIOD
\* C35: after every enable, disable or setEventRate for a handle that
\* returned NO_ERROR the delay set on the device for the handle is the
\* minimum of 1000 ms and the periods of the active connections for it;
\* setEventRate with a negative period returns BAD_VALUE and changes
\* nothing, and no stored period is below the minimum.
C35_DelayFollowsRequests ==
    [](DelayIsWanted /\ StoredAtLeastMinimum) /\ [][BadValueChangesNothing]_vars

\* connection 2 had set the minimum period for sensor 2 and was destroyed;
\* connection 1 then enabled sensor 2, which it already had: the call
\* returned NO_ERROR and the device still has the delay of connection 2
C35_Witness ==
    /\ RateCallSucceeded
    /\ session.calls[1] = [m |-> "enable", c |-> 1, handle |-> 2,
                           ret |-> NO_ERROR, activated |-> FALSE]
    /\ ~lists[2].alive
    /\ cache.mActiveConnections = {1}
    /\ lists[1].mSensorInfo = [h \in Handles |-> DEFAULT_EVENTS_PERIOD]
    /\ rec.delay[2] = MINIMUM_EVENTS_PERIOD

(***************************************************************************)
(* SpecPoll: the service's thread.  Each iteration of threadLoop polls a   *)
(* batch of events into its buffer, records the last value of each sensor  *)
(* and sends the batch to the active connections, which were set up        *)
(* before.  Here cache is the service (mActiveConnections,                 *)
(* mLastEventSeen), lists are the connections (mSensorInfo), and threads   *)
(* is the thread: its buffer, the count poll returned, the indexes of the  *)
(* buffer recordLastValue read, where the iteration stands (pc) and what   *)
(* each connection's sendEvents passed to the channel and returned.        *)
(***************************************************************************)
MaxBatch == 3
EAGAIN == 11
JunkEvent == [version |-> 0 - 1, sensor |-> 0, data |-> 0 - 1]
\* the batches poll returns: the i-th event carries i as its data
Batches ==
    UNION {[1..n -> Handles] : n \in 0..MaxBatch}
BatchEvents(sensors) == [i \in 1..Len(sensors) |-> SensorEvent(sensors[i], i)]
\* poll writes the batch over the beginning of the buffer
PollInto(buffer, batch) ==
    [i \in 1..Len(buffer) |-> IF i <= Len(batch) THEN batch[i] ELSE buffer[i]]

\* the loop of recordLastValue from index i (from 0, as in the code), and
\* the assignment after it
RECURSIVE RecordLoop(_, _, _, _, _)
RecordLoop(last, buffer, count, i, prev) ==
    IF i >= count THEN [last EXCEPT ![prev] = buffer[count]]
    ELSE LET curr == buffer[i + 1].sensor
         IN IF curr # prev
            THEN RecordLoop([last EXCEPT ![prev] = buffer[i]], buffer, count, i + 1, curr)
            ELSE RecordLoop(last, buffer, count, i + 1, prev)

\* a recordLastValue that records the first event of each run
recordLastValue_first(last, buffer, count) ==
    IF count = 0 THEN {[last |-> last, read |-> {}, crashed |-> FALSE]}
    ELSE {[last |-> [h \in Handles |->
                        IF \E i \in 1..count : buffer[i].sensor = h
                        THEN buffer[CHOOSE i \in 1..count :
                                        /\ buffer[i].sensor = h
                                        /\ \A j \in 1..(i - 1) : buffer[j].sensor # h]
                        ELSE last[h]],
           read |-> 0..(count - 1), crashed |-> FALSE]}

\* SensorService::recordLastValue: the outcomes it can have.  With count
\* = 0 it reads buffer[0].sensor, which poll did not write, and assigns
\* buffer[count - 1], which is outside the buffer: some entry gets some
\* value, or editValueFor fails for a handle that is no key.
recordLastValue(last, buffer, count) ==
    IF count = 0
    THEN {[last |-> [last EXCEPT ![h] = e], read |-> {0, 0 - 1}, crashed |-> FALSE] :
              h \in Handles, e \in {JunkEvent} \cup {buffer[i] : i \in 1..Len(buffer)}}
         \cup {[last |-> last, read |-> {0, 0 - 1}, crashed |-> TRUE]}
    ELSE {[last |-> RecordLoop(last, buffer, count, 1, buffer[1].sensor),
           read |-> 0..(count - 1), crashed |-> FALSE]}

\* the end of the run of events of sensor curr that begins at index i
RECURSIVE RunEnd(_, _, _, _)
RunEnd(buffer, numEvents, i, curr) ==
    IF i < numEvents /\ buffer[i + 1].sensor = curr
    THEN RunEnd(buffer, numEvents, i + 1, curr)
    ELSE i

\* the filter loop of sendEvents from index i: what it copies to scratch
RECURSIVE FilterEvents(_, _, _, _)
FilterEvents(mSensorInfo, buffer, numEvents, i) ==
    IF i >= numEvents THEN <<>>
    ELSE LET curr == buffer[i + 1].sensor
         IN IF indexOfKey(mSensorInfo, curr) >= 0
            THEN LET j == RunEnd(buffer, numEvents, i + 1, curr)
                 IN SubSeq(buffer, i + 1, j) \o FilterEvents(mSensorInfo, buffer, numEvents, j)
            ELSE FilterEvents(mSensorInfo, buffer, numEvents, i + 1)

\* a sendEvents that copies one event of each run
sendEvents_oneOfRun(mSensorInfo, buffer, numEvents, scratch, size) ==
    LET events == SelectSeq(SubSeq(buffer, 1, numEvents),
                            LAMBDA e : e.sensor \in DOMAIN mSensorInfo
                                       /\ (e.data = 1 \/ buffer[e.data - 1].sensor # e.sensor))
    IN IF Len(events) = 0 THEN [wrote |-> <<>>, ret |-> 0]
       ELSE [wrote |-> events, ret |-> IF size < 0 THEN size ELSE NO_ERROR]

\* SensorEventConnection::sendEvents: the events passed to mChannel->write
\* and the value returned; size is what write returns
sendEvents(mSensorInfo, buffer, numEvents, scratch, size) ==
    LET events == IF scratch THEN FilterEvents(mSensorInfo, buffer, numEvents, 0)
                  ELSE SubSeq(buffer, 1, numEvents)
    IN IF Len(events) = 0 THEN [wrote |-> <<>>, ret |-> 0]
       ELSE [wrote |-> events, ret |-> IF size < 0 THEN size ELSE NO_ERROR]

NotSent == [wrote |-> <<>>, ret |-> 1]
SensorSets == {[h \in S |-> DEFAULT_EVENTS_PERIOD] : S \in SUBSET Handles}

InitPoll ==
    /\ lists \in [Connections -> [alive : {TRUE}, mSensorInfo : SensorSets, wrote : {<<>>}]]
    /\ cache = [mActiveConnections |-> {c \in Connections : DOMAIN lists[c].mSensorInfo # {}},
                mLastEventSeen |-> [h \in Handles |-> ZeroEvent]]
    /\ threads = [buffer |-> [i \in 1..MaxBatch |-> JunkEvent], count |-> 0, read |-> {},
                  pc |-> "poll", sent |-> [c \in Connections |-> NotSent]]
    /\ rec = <<>>
    /\ session = <<>>
    /\ nops = 0

\* threadLoop: poll returns a batch, recordLastValue, and the copy of
\* mActiveConnections is taken
PollAndRecord ==
    /\ threads.pc = "poll"
    /\ \E sensors \in Batches :
        LET buffer == PollInto(threads.buffer, BatchEvents(sensors))
        IN \E x \in recordLastValue(cache.mLastEventSeen, buffer, Len(sensors)) :
            /\ cache' = [cache EXCEPT !.mLastEventSeen = x.last]
            /\ threads' = [buffer |-> buffer, count |-> Len(sensors), read |-> x.read,
                           pc |-> IF x.crashed THEN "crashed" ELSE "send",
                           sent |-> [c \in Connections |-> NotSent]]
    /\ UNCHANGED <<rec, session, lists, nops>>

\* threadLoop: sendEvents of the next active connection, with scratch
SendToConnection ==
    /\ threads.pc = "send"
    /\ \E c \in cache.mActiveConnections :
        /\ threads.sent[c] = NotSent
        /\ \A b \in cache.mActiveConnections : b < c => threads.sent[b] # NotSent
        /\ \E size \in {1, 0 - EAGAIN} :
            threads' = [threads EXCEPT !.sent[c] =
                sendEvents(lists[c].mSensorInfo, threads.buffer, threads.count, TRUE, size)]
    /\ UNCHANGED <<rec, session, lists, cache, nops>>

\* threadLoop: every active connection was served; the loop goes on
NextIteration ==
    /\ threads.pc = "send"
    /\ \A c \in cache.mActiveConnections : threads.sent[c] # NotSent
    /\ threads' = [threads EXCEPT !.pc = "poll"]
    /\ UNCHANGED <<rec, session, lists, cache, nops>>

NextPoll ==
    \/ PollAndRecord
    \/ SendToConnection
    \/ NextIteration

SpecPoll == InitPoll /\ [][NextPoll]_vars

(***************************************************************************)
(* C34                                                                     *)
(***************************************************************************)
Batch == SubSeq(threads.buffer, 1, threads.count)
Enabled(c, e) == e.sensor \in DOMAIN lists[c].mSensorInfo
\* C34: sendEvents with a scratch buffer passes to the channel the events
\* of the batch whose sensor the connection has enabled, in their order,
\* each once; when there is none it writes nothing and returns 0.
C34_SendsEnabledSubsequence ==
    \A c \in Connections :
        threads.sent[c] # NotSent =>
            LET wanted == SelectSeq(Batch, LAMBDA e : Enabled(c, e))
            IN /\ threads.sent[c].wrote = wanted
               /\ wanted = <<>> => threads.sent[c].ret = 0

\* of a batch of sensors 1, 2, 1 the connection with sensor 1 alone was
\* sent the first and the third event, and the connection with sensor 2
\* the second
C34_Witness ==
    /\ threads.count = 3
    /\ DOMAIN lists[1].mSensorInfo = {1}
    /\ DOMAIN lists[2].mSensorInfo = {2}
    /\ threads.sent[1].wrote = <<SensorEvent(1, 1), SensorEvent(1, 3)>>
    /\ threads.sent[2].wrote = <<SensorEvent(2, 2)>>

(***************************************************************************)
(* C36                                                                     *)
(***************************************************************************)
Polls == threads.pc = "poll" /\ threads'.pc # "poll"
Present(h) == \E i \in 1..threads'.count : threads'.buffer[i].sensor = h
LastOf(h) ==
    threads'.buffer[CHOOSE i \in 1..threads'.count :
                        /\ threads'.buffer[i].sensor = h
                        /\ \A j \in (i + 1)..threads'.count : threads'.buffer[j].sensor # h]
C36_Step ==
    Polls =>
        /\ threads'.read \subseteq 0..(threads'.count - 1)
        /\ threads'.pc # "crashed"
        /\ \A h \in Handles :
               cache'.mLastEventSeen[h] =
                   IF Present(h) THEN LastOf(h) ELSE cache.mLastEventSeen[h]
\* C36: for a batch of n >= 0 events recordLastValue reads only
\* buffer[0..n-1]; after it the entry of mLastEventSeen of each sensor of
\* the batch is the last event of that sensor in the batch, and the entry
\* of each other sensor is as before.
C36_LastValueOfBatch == [][C36_Step]_vars

\* poll returned no event and recordLastValue read buffer[0] and
\* buffer[-1]: the entry of sensor 1 holds an event of an earlier batch
\* that was of sensor 2
C36_Witness ==
    /\ threads.count = 0
    /\ threads.read = {0, 0 - 1}
    /\ cache.mLastEventSeen[1].sensor = 2

\* the same for the batches of at least one event
C36_StepNonEmpty == threads'.count > 0 => C36_Step
C36_NonEmptyBatches == [][C36_StepNonEmpty]_vars

(***************************************************************************)
(* InputWindowHandle (services/jni/com_android_server_InputWindowHandle    *)
(* .cpp).  SpecHandle: threads call android_server_InputWindowHandle_      *)
(* getHandle and nativeDispose on one Java object, statement by statement. *)
(* Here rec is the Java object (its ptr field), lists is gHandleMutex (the *)
(* thread that holds it, or 0), cache is the heap of                       *)
(* NativeInputWindowHandles (live, its strong count, and how many of the   *)
(* references are the object's), threads are the callers (where they       *)
(* stand, the ptr they read, the handle they use, the sp they were         *)
(* returned), session counts the handles created and the disposes that     *)
(* cleared ptr, and nops counts the calls.                                 *)
(***************************************************************************)
MaxJniCalls == 4
JniThreads == {1, 2, 3}
HandleIds == 1..MaxJniCalls
NoHandle == [live |-> FALSE, strong |-> 0, byObj |-> 0]
IdleCaller == [pc |-> "idle", ptr |-> 0, handle |-> 0, ret |-> 0]

\* a lock that every thread gets at once
AutoMutex_open(mutex, t) == TRUE
\* AutoMutex _l(gHandleMutex): the thread can take the mutex
AutoMutex(mutex, t) == mutex = 0

\* RefBase::incStrong and decStrong on a handle; the last decStrong
\* deletes it.  used is FALSE when the handle was deleted before.
incStrong(heap, h, obj) ==
    [heap EXCEPT ![h].strong = @ + 1, ![h].byObj = @ + (IF obj THEN 1 ELSE 0)]
decStrong(heap, h, obj) ==
    [heap EXCEPT ![h].strong = @ - 1,
                 ![h].byObj = @ - (IF obj THEN 1 ELSE 0),
                 ![h].live = heap[h].live /\ heap[h].strong > 1]

InitHandle ==
    /\ rec = [ptr |-> 0]
    /\ lists = 0
    /\ cache = [h \in HandleIds |-> NoHandle]
    /\ threads = [t \in JniThreads |-> IdleCaller]
    /\ session = [created |-> 0, cleared |-> 0, stale |-> FALSE]
    /\ nops = 0

\* a call of getHandle (with an object that is not null) or nativeDispose
\* begins: AutoMutex _l(gHandleMutex)
Lock(t, op) ==
    /\ nops < MaxJniCalls
    /\ threads[t].pc = "idle"
    /\ AutoMutex(lists, t)
    /\ lists' = t
    /\ threads' = [threads EXCEPT ![t].pc = op]
    /\ nops' = nops + 1
    /\ UNCHANGED <<rec, cache, session>>

\* getHandle: ptr = GetIntField; if (ptr) handle = ptr
GetHandleRead(t) ==
    /\ threads[t].pc = "getHandle"
    /\ threads' = [threads EXCEPT ![t].ptr = rec.ptr,
                                  ![t].handle = rec.ptr,
                                  ![t].pc = IF rec.ptr # 0 THEN "return" ELSE "new"]
    /\ UNCHANGED <<rec, lists, cache, session, nops>>

\* getHandle: handle = new NativeInputWindowHandle; handle->incStrong(obj)
GetHandleNew(t) ==
    /\ threads[t].pc = "new"
    /\ LET h == session.created + 1
       IN /\ cache' = incStrong([cache EXCEPT ![h].live = TRUE], h, TRUE)
          /\ threads' = [threads EXCEPT ![t].handle = h, ![t].pc = "set"]
    /\ session' = [session EXCEPT !.created = @ + 1]
    /\ UNCHANGED <<rec, lists, nops>>

\* getHandle: SetIntField(obj, ptr, handle)
GetHandleSet(t) ==
    /\ threads[t].pc = "set"
    /\ rec' = [rec EXCEPT !.ptr = threads[t].handle]
    /\ threads' = [threads EXCEPT ![t].pc = "return"]
    /\ UNCHANGED <<lists, cache, session, nops>>

\* getHandle: return handle; the sp returned takes a strong reference,
\* then the mutex is released
GetHandleReturn(t) ==
    /\ threads[t].pc = "return"
    /\ cache' = incStrong(cache, threads[t].handle, FALSE)
    /\ session' = [session EXCEPT !.stale = @ \/ ~cache[threads[t].handle].live]
    /\ threads' = [threads EXCEPT ![t].ret = threads[t].handle, ![t].pc = "holding"]
    /\ lists' = IF lists = t THEN 0 ELSE lists
    /\ UNCHANGED <<rec, nops>>

\* the caller lets go of the sp it was returned
DropReturned(t) ==
    /\ threads[t].pc = "holding"
    /\ cache' = decStrong(cache, threads[t].ret, FALSE)
    /\ threads' = [threads EXCEPT ![t] = IdleCaller]
    /\ UNCHANGED <<rec, lists, session, nops>>

\* nativeDispose: ptr = GetIntField; if (ptr)
DisposeRead(t) ==
    /\ threads[t].pc = "nativeDispose"
    /\ threads' = [threads EXCEPT ![t].ptr = rec.ptr,
                                  ![t].pc = IF rec.ptr # 0 THEN "clear" ELSE "unlock"]
    /\ UNCHANGED <<rec, lists, cache, session, nops>>

\* nativeDispose: SetIntField(obj, ptr, 0)
DisposeClear(t) ==
    /\ threads[t].pc = "clear"
    /\ rec' = [rec EXCEPT !.ptr = 0]
    /\ session' = [session EXCEPT !.cleared = @ + 1]
    /\ threads' = [threads EXCEPT ![t].pc = "decStrong"]
    /\ UNCHANGED <<lists, cache, nops>>

\* nativeDispose: handle->decStrong(obj)
DisposeDecStrong(t) ==
    /\ threads[t].pc = "decStrong"
    /\ cache' = decStrong(cache, threads[t].ptr, TRUE)
    /\ session' = [session EXCEPT !.stale = @ \/ ~cache[threads[t].ptr].live]
    /\ threads' = [threads EXCEPT ![t].pc = "unlock"]
    /\ UNCHANGED <<rec, lists, nops>>

\* nativeDispose returns: the mutex is released
DisposeReturn(t) ==
    /\ threads[t].pc = "unlock"
    /\ lists' = IF lists = t THEN 0 ELSE lists
    /\ threads' = [threads EXCEPT ![t] = IdleCaller]
    /\ UNCHANGED <<rec, cache, session, nops>>

NextHandle ==
    \E t \in JniThreads :
        \/ Lock(t, "getHandle")
        \/ GetHandleRead(t)
        \/ GetHandleNew(t)
        \/ GetHandleSet(t)
        \/ GetHandleReturn(t)
        \/ DropReturned(t)
        \/ Lock(t, "nativeDispose")
        \/ DisposeRead(t)
        \/ DisposeClear(t)
        \/ DisposeDecStrong(t)
        \/ DisposeReturn(t)

SpecHandle == InitHandle /\ [][NextHandle]_vars

(***************************************************************************)
(* C37                                                                     *)
(***************************************************************************)
InCall == {t \in JniThreads : threads[t].pc \notin {"idle", "holding"}}
\* between calls the object holds one reference on the live handle ptr
\* names and on no other, and none when ptr is 0
PtrOwnsOne ==
    InCall = {} =>
        /\ \A h \in HandleIds : cache[h].byObj = (IF h = rec.ptr THEN 1 ELSE 0)
        /\ rec.ptr # 0 => cache[rec.ptr].live
        /\ session.created = session.cleared + (IF rec.ptr # 0 THEN 1 ELSE 0)
\* a handle lives as long as it is referenced, its count is the object's
\* reference and the sps returned, and no deleted handle is used
CountsExact ==
    /\ ~session.stale
    /\ \A h \in HandleIds :
           /\ cache[h].live <=> cache[h].strong > 0
           /\ cache[h].strong =
                  cache[h].byObj + Cardinality({t \in JniThreads : threads[t].ret = h})
\* getHandle returns the handle ptr names; a nativeDispose that finds
\* ptr = 0 changes nothing; one that finds a handle drops one reference
C37_Step ==
    /\ \A t \in JniThreads :
           /\ (threads[t].pc = "return" /\ threads'[t].pc = "holding") =>
                  threads'[t].ret = rec.ptr /\ rec.ptr # 0
           /\ (threads[t].pc = "nativeDispose" /\ threads'[t].pc = "unlock") =>
                  rec.ptr = 0 /\ rec' = rec /\ cache' = cache
           /\ (threads[t].pc = "decStrong" /\ threads'[t].pc = "unlock") =>
                  /\ rec.ptr = 0
                  /\ cache'[threads[t].ptr].strong = cache[threads[t].ptr].strong - 1
                  /\ \A h \in HandleIds \ {threads[t].ptr} : cache'[h] = cache[h]
\* C37: in every interleaving of getHandle and nativeDispose on one
\* object, ptr is not 0 exactly when the object holds one strong reference
\* on one live handle; getHandle calls that find no dispose between them
\* make one handle and all return it; nativeDispose clears ptr and drops
\* one reference, and a nativeDispose that finds ptr = 0 does nothing.
C37_PtrIffOneReference == [](PtrOwnsOne /\ CountsExact) /\ [][C37_Step]_vars

\* two threads hold the same handle, returned by getHandle, one handle
\* was made, and nativeDispose has since cleared ptr: the handle lives on
\* the two references returned
C37_Witness ==
    /\ threads[1].pc = "holding"
    /\ threads[2].pc = "holding"
    /\ threads[1].ret = 1
    /\ threads[2].ret = 1
    /\ session.created = 1
    /\ session.cleared = 1
    /\ rec.ptr = 0
    /\ cache[1] = [live |-> TRUE, strong |-> 2, byObj |-> 0]

(***************************************************************************)
(* ScriptC::runForEach (libs/rs/rsScriptC.cpp).  SpecSlices: runForEach    *)
(* fills the MTLaunchStruct and launches the workers, which claim slices   *)
(* with android_atomic_inc and call the kernel on their cells.  Here rec   *)
(* is the MTLaunchStruct (with mSliceNum), threads are the workers (pc,    *)
(* and the bounds of the slice they run), cache counts the calls of the    *)
(* kernel per cell (x, y), and session is the call of runForEach: the      *)
(* dimensions of the allocation, the RsScriptCall and the number of        *)
(* workers.                                                                *)
(***************************************************************************)
mSliceSize == 10
MaxDim == 21
MaxWorkers == 3
Workers == 1..MaxWorkers
NoScriptCall == [xStart |-> 0, xEnd |-> 0, yStart |-> 0, yEnd |-> 0]
\* the calls of runForEach: an allocation of one or two dimensions, and
\* no RsScriptCall or one that names a part of the allocation
LaunchInputs ==
    {[dimX |-> p[1], dimY |-> p[2], sc |-> sc, pool |-> n] :
        p \in {<<1, 0>>, <<12, 0>>, <<MaxDim, 1>>, <<2, 2>>, <<1, 11>>, <<2, MaxDim>>},
        sc \in {NoScriptCall,
                [xStart |-> 0, xEnd |-> 1, yStart |-> 0, yEnd |-> 1],
                [xStart |-> 1, xEnd |-> 2, yStart |-> 1, yEnd |-> 2],
                [xStart |-> 1, xEnd |-> 12, yStart |-> 0, yEnd |-> 0],
                [xStart |-> 0, xEnd |-> 0, yStart |-> 5, yEnd |-> MaxDim]},
        n \in 2..MaxWorkers} \cap
    {c \in [dimX : 1..MaxDim, dimY : 0..MaxDim,
            sc : [xStart : 0..MaxDim, xEnd : 0..MaxDim, yStart : 0..MaxDim, yEnd : 0..MaxDim],
            pool : 2..MaxWorkers] :
        /\ c.sc.xEnd # 0 => c.sc.xStart < c.sc.xEnd /\ c.sc.xEnd <= c.dimX
        /\ c.sc.yEnd # 0 => c.sc.yStart < c.sc.yEnd /\ c.sc.yEnd <= c.dimY}

\* runForEach, lines 239-297: the MTLaunchStruct of a call with an input
\* allocation; launched is FALSE where runForEach returns before
MTLaunchStruct(c) ==
    LET xAll == c.sc.xEnd = 0
        yAll == c.sc.yEnd = 0
        xStart == IF xAll THEN 0 ELSE Min(c.dimX, c.sc.xStart)
        xEnd == IF xAll THEN c.dimX ELSE Min(c.dimX, c.sc.xEnd)
        yStart == IF yAll THEN 0 ELSE Min(c.dimY, c.sc.yStart)
        yEnd == IF yAll THEN c.dimY ELSE Min(c.dimY, c.sc.yEnd)
    IN [dimX |-> c.dimX, dimY |-> c.dimY,
        xStart |-> xStart, xEnd |-> Max(1, xEnd),
        yStart |-> yStart, yEnd |-> Max(1, yEnd),
        mSliceNum |-> 0,
        launched |-> /\ (xAll \/ xStart < xEnd)
                     /\ (yAll \/ yStart < yEnd)]

\* a slice that begins one row before the end of the one before it
Slice_overlapping(mtls, slice) ==
    LET start == mtls.yStart + slice * (mSliceSize - 1)
    IN IF mtls.dimY > 1
       THEN [xStart |-> mtls.xStart, xEnd |-> mtls.xEnd,
             yStart |-> start, yEnd |-> Min(start + mSliceSize, mtls.yEnd)]
       ELSE [xStart |-> mtls.xStart + slice * mSliceSize,
             xEnd |-> Min(mtls.xStart + slice * mSliceSize + mSliceSize, mtls.xEnd),
             yStart |-> 0, yEnd |-> 1]

\* wc_xy (dimY > 1) and wc_x: the bounds of the slice of a slice number
Slice(mtls, slice) ==
    IF mtls.dimY > 1
    THEN LET yStart == mtls.yStart + slice * mSliceSize
         IN [xStart |-> mtls.xStart, xEnd |-> mtls.xEnd,
             yStart |-> yStart, yEnd |-> Min(yStart + mSliceSize, mtls.yEnd)]
    ELSE LET xStart == mtls.xStart + slice * mSliceSize
         IN [xStart |-> xStart, xEnd |-> Min(xStart + mSliceSize, mtls.xEnd),
             yStart |-> 0, yEnd |-> 1]

\* the test that ends the worker: yEnd <= yStart, or xEnd <= xStart
SliceEmpty(mtls, s) ==
    IF mtls.dimY > 1 THEN s.yEnd <= s.yStart ELSE s.xEnd <= s.xStart

\* the cells (x, y) of the loops over a range
CellsOf(s) == (s.xStart..(s.xEnd - 1)) \X (s.yStart..(s.yEnd - 1))

\* the cells of the loop of the single-threaded branch (z and ar are 0)
SingleThreadedCells(mtls) == CellsOf(mtls)

\* the kernel is called once more on each cell of S
CallRoot(calls, S) ==
    [c \in DOMAIN calls \cup S |->
        (IF c \in DOMAIN calls THEN calls[c] ELSE 0) + (IF c \in S THEN 1 ELSE 0)]

NoSlice == [xStart |-> 0, xEnd |-> 0, yStart |-> 0, yEnd |-> 0]

InitSlices ==
    /\ session \in LaunchInputs
    /\ rec = MTLaunchStruct(session)
    /\ threads = [w \in Workers |->
                     [pc |-> IF w <= session.pool /\ rec.launched THEN "claim" ELSE "off",
                      s |-> NoSlice]]
    /\ cache = [c \in {} |-> 0]
    /\ lists = <<>>
    /\ nops = 0

\* a worker takes the next slice number; it returns when the slice is empty
ClaimSlice(w) ==
    /\ threads[w].pc = "claim"
    /\ LET s == Slice(rec, rec.mSliceNum)
       IN threads' = [threads EXCEPT ![w] =
              IF SliceEmpty(rec, s) THEN [pc |-> "returned", s |-> NoSlice]
              ELSE [pc |-> "run", s |-> s]]
    /\ rec' = [rec EXCEPT !.mSliceNum = @ + 1]
    /\ UNCHANGED <<session, lists, cache, nops>>

\* the worker calls the kernel on the cells of its slice
RunSlice(w) ==
    /\ threads[w].pc = "run"
    /\ cache' = CallRoot(cache, CellsOf(threads[w].s))
    /\ threads' = [threads EXCEPT ![w] = [pc |-> "claim", s |-> NoSlice]]
    /\ UNCHANGED <<rec, session, lists, nops>>

NextSlices == \E w \in Workers : ClaimSlice(w) \/ RunSlice(w)

SpecSlices == InitSlices /\ [][NextSlices]_vars

\* each worker runs on a thread of its own
SpecSlicesFair ==
    SpecSlices /\ \A w \in Workers : WF_vars(ClaimSlice(w) \/ RunSlice(w))

(***************************************************************************)
(* C38                                                                     *)
(***************************************************************************)
AllReturned == \A w \in Workers : threads[w].pc \in {"returned", "off"}
Running == {w \in Workers : threads[w].pc = "run"}
\* no cell is called twice or outside the range, and the slices that are
\* running share no cell with one another or with the cells called
SlicesDisjoint ==
    /\ DOMAIN cache \subseteq SingleThreadedCells(rec)
    /\ \A c \in DOMAIN cache : cache[c] = 1
    /\ \A w \in Running :
           /\ CellsOf(threads[w].s) \subseteq SingleThreadedCells(rec)
           /\ CellsOf(threads[w].s) \cap DOMAIN cache = {}
           /\ \A v \in Running \ {w} : CellsOf(threads[w].s) \cap CellsOf(threads[v].s) = {}
\* when all workers have returned each cell of the single-threaded loop
\* was called once
AllCellsOnce ==
    (AllReturned /\ rec.launched) =>
        cache = [c \in SingleThreadedCells(rec) |-> 1]
\* C38: in multi-threaded mode the kernel is called exactly once for each
\* cell (x, y) of the range, for any number of workers and any
\* interleaving of their slice claims: the slices are disjoint and cover
\* the range, every worker returns, and the cells called are those of the
\* single-threaded loop.
C38_EveryCellOnce == [](SlicesDisjoint /\ AllCellsOnce) /\ <>AllReturned

\* three workers have returned after a launch over 2 x 21 cells, rows 5
\* to 20 of which were asked for: two slices, 32 cells, each called once
C38_Witness ==
    /\ AllReturned
    /\ session.pool = 3
    /\ session.dimY = MaxDim
    /\ session.sc.yStart = 5
    /\ rec.mSliceNum = 5
    /\ Cardinality(DOMAIN cache) = 32

====
